---- MODULE Spec2Model ----
(***************************************************************************)
(* Pharmacy sales reporting backend (server_uni): the DetailedSales        *)
(* controller (role check, filters, aggregation pipelines, invoice-type    *)
(* roll-up) and the Pharmacy controller, as a state machine over the       *)
(* database collections and the response of the request being answered.    *)
(*                                                                         *)
(* The collections live in MongoDB and the aggregation pipelines read the  *)
(* stored documents as they are. The controller groups invoice types       *)
(* ('insurance', 'ReturnOnline', 'Wasfaty', ...) and reads a CustomerName   *)
(* that the DetailedSales schema does not admit, and compares the types    *)
(* without regard to case: the stored documents are not confined to what   *)
(* the schema validates. Init therefore draws the collections from bounded *)
(* sets of documents, and the API's own writes go through the validators.  *)
(*                                                                         *)
(* The other controllers follow, each with a specification of its own over *)
(* the same variables: the HeaderSales by-month reports (SpecHeader), the   *)
(* item catalogues (SpecItems, SpecBulk), the Visit log (SpecVisits), the   *)
(* staff of a pharmacy (SpecStaff), users, login and the protect            *)
(* middleware (SpecAuth, SpecUsers), the InsuranceItem and BabyJoy         *)
(* controllers (SpecPages), the routes of the Visit log (SpecRoutes), the   *)
(* handlers that call the database twice, with other requests between the  *)
(* two calls (SpecRace, SpecItemRace), and the write handlers of the five   *)
(* admin-only collections together (SpecWrites).                            *)
(***************************************************************************)
EXTENDS Integers, Sequences, FiniteSets, TLC

VARIABLES
    pharmacies,   \* Pharmacy collection: branchCode -> [supervisor]
    sales,        \* DetailedSales collection: _id -> document
    resp,         \* the response of the request just answered (NoResp when delivered)
    monthCall,    \* getSalesByMonth between its two aggregations (<<>> when none)
    headerSales,     \* HeaderSales collection: _id -> document
    incentiveItems,  \* IncentiveItem collection: _id -> document
    insuranceItems,  \* InsuranceItem collection: _id -> document
    babyJoyItems,    \* BabyJoy collection: _id -> document
    visits,          \* Visit collection: _id -> document
    users,           \* User collection: _id -> document
    userSeq,         \* the number of _ids given to User documents so far
    tokens,          \* the tokens login has handed out, each with the _id of its user
    calls,           \* the update and delete calls between their two database calls
    contests         \* Contest collection: _id -> document

\* the collections of the other controllers, by controller
headerVars == <<headerSales>>
itemVars == <<incentiveItems, insuranceItems, babyJoyItems>>
visitVars == <<visits>>
userVars == <<users, userSeq, tokens>>
callVars == <<calls>>
contestVars == <<contests>>

salesVars == <<pharmacies, sales, monthCall, callVars, contestVars>>
others == <<headerVars, itemVars, visitVars, userVars, callVars, contestVars>>

vars == <<pharmacies, sales, resp, monthCall, others>>

----------------------------------------------------------------------------
(* Bounds *)

MaxSales == 2          \* documents in the DetailedSales collection
MaxBulk == 2           \* items in the array of a bulk insert

----------------------------------------------------------------------------
(* Users (req.user as attached by the protect middleware) *)

NoUser == "none"

Principals ==
    { [id |-> "admin1", role |-> "admin"],
      [id |-> "sup1",   role |-> "pharmacy supervisor"],
      [id |-> "sup2",   role |-> "pharmacy supervisor"],
      [id |-> "pharm1", role |-> "pharmacist"],
      [id |-> "user1",  role |-> "user"] }

Admins == {u \in Principals : u.role = "admin"}
Supervisors == {u \in Principals : u.role = "pharmacy supervisor"}
OtherRoles == {u \in Principals : u.role \in {"user", "pharmacist"}}

SupervisorIds == {u.id : u \in Supervisors}

----------------------------------------------------------------------------
(* Documents *)

BranchCodes == {1, 2}
UnknownBranch == {3}          \* a branch code no pharmacy and no sale carries
SaleIds == 1..MaxSales

Date(y, m, d) == [year |-> y, month |-> m, day |-> d]

\* Sample documents: five invoice lines differing in every grouping dimension
\* (branch, invoice type, sales name, customer, invoice date) ...
Profiles ==
    { [BranchCode |-> 1, InvoiceType |-> "Normal", SalesName |-> "Ali",
       CustomerName |-> "N/A", InvoiceDate |-> Date(2025, 1, 5)],
      [BranchCode |-> 1, InvoiceType |-> "NORMAL", SalesName |-> "Sara",
       CustomerName |-> "TAMARA", InvoiceDate |-> Date(2025, 1, 6)],
      [BranchCode |-> 2, InvoiceType |-> "Return", SalesName |-> "Ali",
       CustomerName |-> "Bupa Arabia", InvoiceDate |-> Date(2025, 2, 1)],
      [BranchCode |-> 2, InvoiceType |-> "returninsurance", SalesName |-> "Sara",
       CustomerName |-> "N/A", InvoiceDate |-> Date(2025, 1, 5)],
      [BranchCode |-> 1, InvoiceType |-> "Exchange", SalesName |-> "Omar",
       CustomerName |-> "TAMARA", InvoiceDate |-> Date(2024, 12, 31)] }

\* ... each with one of three sets of amounts (a return line carries negative
\* amounts, and a sale and its return add up to zero)
Amounts ==
    { [Quantity |-> 1, ItemsNetPrice |-> 3, NetTotal |-> 4],
      [Quantity |-> 2, ItemsNetPrice |-> 1, NetTotal |-> 1],
      [Quantity |-> 1, ItemsNetPrice |-> -1, NetTotal |-> -1] }

MakeRow(p, a) ==
    [BranchCode |-> p.BranchCode, InvoiceType |-> p.InvoiceType,
     SalesName |-> p.SalesName, CustomerName |-> p.CustomerName,
     InvoiceDate |-> p.InvoiceDate, Quantity |-> a.Quantity,
     ItemsNetPrice |-> a.ItemsNetPrice, NetTotal |-> a.NetTotal]

SaleRows == {MakeRow(p, a) : p \in Profiles, a \in Amounts}

\* The documents of the access-control specification: one line per branch ...
AccessRows ==
    {r \in SaleRows : r.InvoiceType \in {"Normal", "Return"} /\ r.ItemsNetPrice = 3}

\* ... and the request bodies of its writes: these and a line with a negative NetTotal
AccessBodies ==
    AccessRows \cup {r \in SaleRows : r.InvoiceType = "Normal" /\ r.NetTotal < 0}

\* The documents of the two-aggregation specification: three days in two months
MonthRows ==
    {r \in SaleRows : r.InvoiceType \in {"Normal", "NORMAL", "Return"} /\ r.ItemsNetPrice = 3}

Collections(rows) == UNION {[S -> rows] : S \in SUBSET SaleIds}

PharmacyDocs == [supervisor : SupervisorIds \cup {NoUser}]
PharmacyCollections == UNION {[S -> PharmacyDocs] : S \in SUBSET BranchCodes}

----------------------------------------------------------------------------
(* Requests *)

\* An optional query parameter: <<>> when absent, <<v>> when present
Absent == <<>>
Has(p) == p # <<>>
Val(p) == p[1]

\* branchCode (after parseInt) and year/month of req.query
Queries ==
    [branchCode : {Absent} \cup {<<b>> : b \in BranchCodes \cup UnknownBranch},
     ym : {Absent, <<[year |-> 2025, month |-> 1]>>}]

\* the requests of the handlers that read branchCode alone
BranchQueries == {q \in Queries : ~Has(q.ym)}

NoQuery == [branchCode |-> Absent, ym |-> Absent]

NoResp == [endpoint |-> "none"]

Reply(endpoint, user, query, status, body) ==
    [endpoint |-> endpoint, caller |-> user, query |-> query,
     status |-> status, body |-> body]

Denied == [success |-> FALSE]

----------------------------------------------------------------------------
(* The role check every handler of the controller starts with *)

\* a role check that also admits the pharmacy supervisors
IsAdminOrSupervisor(user) == user.role \in {"admin", "pharmacy supervisor"}

\* !user || !user.role || user.role.toLowerCase() !== 'admin' answers 403
\* (roles are stored in lower case: the User schema's enum)
IsAdmin(user) == user.role = "admin"

----------------------------------------------------------------------------
(* Query filters *)

\* query.BranchCode = parseInt(branchCode) when branchCode is given
MatchBranch(q, row) == Has(q.branchCode) => row.BranchCode = Val(q.branchCode)

\* query.InvoiceDate = {$gte: first of month, $lte: last of month} when year and month are given
MatchMonth(q, row) ==
    Has(q.ym) => /\ row.InvoiceDate.year = Val(q.ym).year
                 /\ row.InvoiceDate.month = Val(q.ym).month

\* {$match: query}: the documents the query keeps (keep[i] for document i)
Matching(db, keep) == {i \in DOMAIN db : keep[i]}

----------------------------------------------------------------------------
(* The aggregation pipeline: $match, $group with $sum, $sort *)

\* {$sum: '$field'}: a document without the field adds 0
RECURSIVE SumField(_, _, _)
SumField(db, ids, f) ==
    IF ids = {} THEN 0
    ELSE LET i == CHOOSE x \in ids : TRUE
         IN (IF f \in DOMAIN db[i] THEN db[i][f] ELSE 0) + SumField(db, ids \ {i}, f)

CustomerKey(row) == row.CustomerName

BranchKey(row) == row.BranchCode

SalesNameKey(row) == row.SalesName

InvoiceTypeKey(row) == row.InvoiceType

MonthKey(row) == [year |-> row.InvoiceDate.year, month |-> row.InvoiceDate.month]

DayKey(row) == row.InvoiceDate

\* the _id of a $group stage, by the name of the grouping
GroupKey(dimension, row) ==
    CASE dimension = "CustomerName" -> CustomerKey(row)
      [] dimension = "BranchCode" -> BranchKey(row)
      [] dimension = "SalesName" -> SalesNameKey(row)
      [] dimension = "InvoiceType" -> InvoiceTypeKey(row)
      [] dimension = "month" -> MonthKey(row)
      [] dimension = "day" -> DayKey(row)

\* {$group: {_id: key, totalSales: {$sum: '$ItemsNetPrice'}, totalTransactions: {$sum: 1},
\*           totalQuantity: {$sum: '$Quantity'}, totalNetTotal: {$sum: '$NetTotal'}}}
GroupStage(db, ids, dimension) ==
    { LET members == {i \in ids : GroupKey(dimension, db[i]) = k}
      IN [_id |-> k,
          totalSales |-> SumField(db, members, "ItemsNetPrice"),
          totalTransactions |-> Cardinality(members),
          totalQuantity |-> SumField(db, members, "Quantity"),
          totalNetTotal |-> SumField(db, members, "NetTotal")]
      : k \in {GroupKey(dimension, db[i]) : i \in ids} }

BySalesDesc(a, b) == a.totalSales >= b.totalSales

ByBranchCode(a, b) == a.branchCode <= b.branchCode

ByMonthAsc(a, b) ==
    \/ a._id.year < b._id.year
    \/ a._id.year = b._id.year /\ a._id.month <= b._id.month

ByDayAsc(a, b) ==
    \/ a._id.year < b._id.year
    \/ a._id.year = b._id.year /\ a._id.month < b._id.month
    \/ a._id.year = b._id.year /\ a._id.month = b._id.month /\ a._id.day <= b._id.day

\* the comparison of a sort, by its name
InOrder(order, a, b) ==
    CASE order = "totalSales desc" -> BySalesDesc(a, b)
      [] order = "branchCode asc" -> ByBranchCode(a, b)
      [] order = "month asc" -> ByMonthAsc(a, b)
      [] order = "day asc" -> ByDayAsc(a, b)

\* {$sort: ...}: every order of the groups the sort key allows (MongoDB leaves
\* the order of groups with equal keys open)
SortStage(groups, order) ==
    LET n == Cardinality(groups)
    IN {s \in [1..n -> groups] :
          /\ \A i, j \in 1..n : i # j => s[i] # s[j]
          /\ \A i \in 1..n : i < n => InOrder(order, s[i], s[i + 1])}

RECURSIVE SumSeq(_, _)
\* statistics.reduce((sum, stat) => sum + stat[f], 0)
SumSeq(stats, f) ==
    IF stats = <<>> THEN 0 ELSE stats[1][f] + SumSeq(Tail(stats), f)

\* the percentage without its guard on the grand total
UnguardedPercentage(totalSales, grandTotalSales) ==
    [num |-> totalSales * 100, den |-> grandTotalSales]

\* percentage: grandTotalSales > 0 ? (stat.totalSales / grandTotalSales) * 100 : 0,
\* kept as the exact fraction num / den
Percentage(totalSales, grandTotalSales) ==
    IF grandTotalSales > 0
    THEN [num |-> totalSales * 100, den |-> grandTotalSales]
    ELSE [num |-> 0, den |-> 1]

WithPercentage(stats, grandTotalSales) ==
    [i \in 1..Len(stats) |->
        [percentage |-> Percentage(stats[i].totalSales, grandTotalSales)] @@ stats[i]]

----------------------------------------------------------------------------
(* getDetailedSales: GET /api/detailed-sales *)

GetDetailedSalesResponses(user, q, db) ==
    IF ~IsAdmin(user) THEN {[status |-> 403, body |-> Denied]}
    ELSE LET match(row) == MatchBranch(q, row)
             found == Matching(db, [i \in DOMAIN db |-> match(db[i])])
         IN {[status |-> 200,
              body |-> [success |-> TRUE, count |-> Cardinality(found),
                        total |-> Cardinality(found),
                        data |-> {[id |-> i, doc |-> db[i]] : i \in found}]]}

GetDetailedSales(user, q) ==
    /\ resp = NoResp
    /\ \E r \in GetDetailedSalesResponses(user, q, sales) :
          resp' = Reply("getDetailedSales", user, q, r.status, r.body)
    /\ UNCHANGED <<pharmacies, sales, monthCall>>
    /\ UNCHANGED others

----------------------------------------------------------------------------
(* getDetailedSale: GET /api/detailed-sales/:id *)

\* findById and its 404 come before the role check
GetDetailedSaleResponses(user, id, db) ==
    IF id \notin DOMAIN db THEN {[status |-> 404, body |-> Denied]}
    ELSE IF ~IsAdmin(user) THEN {[status |-> 403, body |-> Denied]}
    ELSE {[status |-> 200, body |-> [success |-> TRUE, data |-> [id |-> id, doc |-> db[id]]]]}

GetDetailedSale(user, id) ==
    /\ resp = NoResp
    /\ \E r \in GetDetailedSaleResponses(user, id, sales) :
          resp' = Reply("getDetailedSale", user, [id |-> id], r.status, r.body)
    /\ UNCHANGED <<pharmacies, sales, monthCall>>
    /\ UNCHANGED others

----------------------------------------------------------------------------
(* getAllCashDetailedSales, getCashDetailedSalesStatistics *)

cashCustomerNames ==
    { "N/A", "Milk Discount", "Hospitals & Clinics employee",
      "Ministry of Human Resources and Soc", "TAMARA", "Near Care",
      "Saudi Tabby for Communications and" }

CashMatch(q, row) ==
    /\ row.CustomerName \in cashCustomerNames
    /\ MatchBranch(q, row)
    /\ MatchMonth(q, row)

GetAllCashDetailedSalesResponses(user, q, db) ==
    IF ~IsAdmin(user) THEN {[status |-> 403, body |-> Denied]}
    ELSE LET match(row) == CashMatch(q, row)
             found == Matching(db, [i \in DOMAIN db |-> match(db[i])])
         IN {[status |-> 200,
              body |-> [success |-> TRUE, count |-> Cardinality(found),
                        total |-> Cardinality(found),
                        data |-> {[id |-> i, doc |-> db[i]] : i \in found},
                        summary |->
                          [totalSales |-> SumField(db, found, "ItemsNetPrice"),
                           totalTransactions |-> Cardinality(found),
                           totalQuantity |-> SumField(db, found, "Quantity"),
                           totalNetTotal |-> SumField(db, found, "NetTotal")]]]}

GetAllCashDetailedSales(user, q) ==
    /\ resp = NoResp
    /\ \E r \in GetAllCashDetailedSalesResponses(user, q, sales) :
          resp' = Reply("getAllCashDetailedSales", user, q, r.status, r.body)
    /\ UNCHANGED <<pharmacies, sales, monthCall>>
    /\ UNCHANGED others

\* statistics and summary of a "grouped by one dimension" response
StatsBody(statistics, grandTotalSales) ==
    [success |-> TRUE,
     statistics |-> statistics,
     summary |-> [groups |-> Len(statistics),
                  totalSales |-> grandTotalSales,
                  totalTransactions |-> SumSeq(statistics, "totalTransactions"),
                  totalQuantity |-> SumSeq(statistics, "totalQuantity")]]

GetCashDetailedSalesStatisticsResponses(user, q, db) ==
    IF ~IsAdmin(user) THEN {[status |-> 403, body |-> Denied]}
    ELSE LET match(row) == CashMatch(q, row)
             groups == GroupStage(db, Matching(db, [i \in DOMAIN db |-> match(db[i])]), "CustomerName")
         IN { LET statistics ==
                      [i \in 1..Len(stats) |->
                          [customerName |-> stats[i]._id,
                           totalSales |-> stats[i].totalSales,
                           totalTransactions |-> stats[i].totalTransactions,
                           totalQuantity |-> stats[i].totalQuantity,
                           totalNetTotal |-> stats[i].totalNetTotal]]
              IN [status |-> 200,
                  body |-> StatsBody(statistics, SumSeq(statistics, "totalSales"))]
              : stats \in SortStage(groups, "totalSales desc") }

GetCashDetailedSalesStatistics(user, q) ==
    /\ resp = NoResp
    /\ \E r \in GetCashDetailedSalesStatisticsResponses(user, q, sales) :
          resp' = Reply("getCashDetailedSalesStatistics", user, q, r.status, r.body)
    /\ UNCHANGED <<pharmacies, sales, monthCall>>
    /\ UNCHANGED others

----------------------------------------------------------------------------
(* getSalesStatistics: GET /api/detailed-sales/stats/summary *)

GetSalesStatisticsResponses(user, q, db) ==
    IF ~IsAdmin(user) THEN {[status |-> 403, body |-> Denied]}
    ELSE LET match(row) == MatchBranch(q, row)
             found == Matching(db, [i \in DOMAIN db |-> match(db[i])])
         IN {[status |-> 200,
              body |-> [success |-> TRUE,
                        data |-> [totalSales |-> SumField(db, found, "NetTotal"),
                                  totalItems |-> SumField(db, found, "Quantity"),
                                  totalDiscount |-> SumField(db, found, "TotalDiscount"),
                                  totalVAT |-> SumField(db, found, "TotalVAT"),
                                  totalDeliveryFees |-> SumField(db, found, "DeliveryFees"),
                                  count |-> Cardinality(found)]]]}

GetSalesStatistics(user, q) ==
    /\ resp = NoResp
    /\ \E r \in GetSalesStatisticsResponses(user, q, sales) :
          resp' = Reply("getSalesStatistics", user, q, r.status, r.body)
    /\ UNCHANGED <<pharmacies, sales, monthCall>>
    /\ UNCHANGED others

----------------------------------------------------------------------------
(* getPharmaciesByBranchCode: GET /api/detailed-sales/stats/pharmacies-by-branch *)

GetPharmaciesByBranchCodeResponses(user, db, pharm) ==
    IF ~IsAdmin(user) THEN {[status |-> 403, body |-> Denied]}
    ELSE LET salesByBranch == GroupStage(db, DOMAIN db, "BranchCode")
             \* one entry per distinct BranchCode, with the pharmacies of that code counted
             entries == { [branchCode |-> g._id,
                           pharmacyCount |-> Cardinality({b \in DOMAIN pharm : b = g._id}),
                           totalSales |-> g.totalSales] : g \in salesByBranch }
         IN { LET grandTotalSales == SumSeq(stats, "totalSales")
              IN [status |-> 200,
                  body |-> [success |-> TRUE,
                            statistics |-> WithPercentage(stats, grandTotalSales),
                            summary |-> [totalBranchCodes |-> Len(stats),
                                         totalPharmacies |-> Cardinality(DOMAIN pharm),
                                         totalSales |-> grandTotalSales]]]
              : stats \in SortStage(entries, "branchCode asc") }

GetPharmaciesByBranchCode(user) ==
    /\ resp = NoResp
    /\ \E r \in GetPharmaciesByBranchCodeResponses(user, sales, pharmacies) :
          resp' = Reply("getPharmaciesByBranchCode", user, NoQuery, r.status, r.body)
    /\ UNCHANGED <<pharmacies, sales, monthCall>>
    /\ UNCHANGED others

----------------------------------------------------------------------------
(* getSalesBySalesName: GET /api/detailed-sales/stats/sales-by-name *)

BranchMonthMatch(q, row) == MatchBranch(q, row) /\ MatchMonth(q, row)

GetSalesBySalesNameResponses(user, q, db) ==
    IF ~IsAdmin(user) THEN {[status |-> 403, body |-> Denied]}
    ELSE LET match(row) == BranchMonthMatch(q, row)
             groups == GroupStage(db, Matching(db, [i \in DOMAIN db |-> match(db[i])]), "SalesName")
         IN { LET statistics ==
                      [i \in 1..Len(salesByName) |->
                          [salesName |-> salesByName[i]._id,
                           totalSales |-> salesByName[i].totalSales,
                           totalTransactions |-> salesByName[i].totalTransactions,
                           totalQuantity |-> salesByName[i].totalQuantity,
                           totalNetTotal |-> salesByName[i].totalNetTotal]]
                  grandTotalSales == SumSeq(statistics, "totalSales")
              IN [status |-> 200,
                  body |-> StatsBody(WithPercentage(statistics, grandTotalSales),
                                     grandTotalSales)]
              : salesByName \in SortStage(groups, "totalSales desc") }

GetSalesBySalesName(user, q) ==
    /\ resp = NoResp
    /\ \E r \in GetSalesBySalesNameResponses(user, q, sales) :
          resp' = Reply("getSalesBySalesName", user, q, r.status, r.body)
    /\ UNCHANGED <<pharmacies, sales, monthCall>>
    /\ UNCHANGED others

----------------------------------------------------------------------------
(* getSalesByInvoiceType: GET /api/detailed-sales/stats/sales-by-invoice-type *)

\* String.prototype.toLowerCase on the invoice types and user names that occur
ToLowerCase(t) ==
    CASE t = "Normal" -> "normal"
      [] t = "NORMAL" -> "normal"
      [] t = "Return" -> "return"
      [] t = "Exchange" -> "exchange"
      [] t = "Other" -> "other"
      [] t = "Ali" -> "ali"
      [] t = "ALI" -> "ali"
      [] OTHER -> t

\* the six pairs, in the order the handler appends their totals
RollUpPairs ==
    << [label |-> "Total insurance", sale |-> "insurance", back |-> "returninsurance"],
       [label |-> "Total Online", sale |-> "online", back |-> "returnonline"],
       [label |-> "Total CashCustomer", sale |-> "cashcustomer", back |-> "returncashcustomer"],
       [label |-> "Total CreditCustomer", sale |-> "creditcustomer",
        back |-> "returncreditcustomer"],
       [label |-> "Total Wasfaty", sale |-> "wasfaty", back |-> "returnwasfaty"],
       [label |-> "Total Normal", sale |-> "normal", back |-> "return"] >>

PairMembers ==
    UNION {{RollUpPairs[k].sale, RollUpPairs[k].back} : k \in 1..Len(RollUpPairs)}

\* statistics.find(stat => stat.invoiceType && stat.invoiceType.toLowerCase() === name):
\* the first match, <<>> when there is none
FindStat(statistics, name) ==
    LET hits == {i \in 1..Len(statistics) : ToLowerCase(statistics[i].invoiceType) = name}
    IN IF hits = {} THEN <<>>
       ELSE <<statistics[CHOOSE i \in hits : \A j \in hits : i <= j]>>

\* stat?.f || 0
StatField(found, f) == IF found = <<>> THEN 0 ELSE found[1][f]

TotalEntry(label, a, b) ==
    [invoiceType |-> label,
     totalSales |-> StatField(a, "totalSales") + StatField(b, "totalSales"),
     totalTransactions |-> StatField(a, "totalTransactions") + StatField(b, "totalTransactions"),
     totalQuantity |-> StatField(a, "totalQuantity") + StatField(b, "totalQuantity"),
     totalNetTotal |-> StatField(a, "totalNetTotal") + StatField(b, "totalNetTotal")]

\* statistics.filter(...): the groups whose lower-cased type is none of the twelve
IsPassedThrough(stat) == ToLowerCase(stat.invoiceType) \notin PairMembers

RECURSIVE PushTotals(_, _, _)
\* the "if (xStat || returnXStat) filteredStatistics.push(totalXEntry)" blocks, in order
PushTotals(filtered, statistics, k) ==
    IF k > Len(RollUpPairs) THEN filtered
    ELSE LET a == FindStat(statistics, RollUpPairs[k].sale)
             b == FindStat(statistics, RollUpPairs[k].back)
             next == IF a # <<>> \/ b # <<>>
                     THEN Append(filtered, TotalEntry(RollUpPairs[k].label, a, b))
                     ELSE filtered
         IN PushTotals(next, statistics, k + 1)

RollUp(statistics) == PushTotals(SelectSeq(statistics, IsPassedThrough), statistics, 1)

FormatInvoiceTypes(salesByInvoiceType) ==
    [i \in 1..Len(salesByInvoiceType) |->
        [invoiceType |-> salesByInvoiceType[i]._id,
         totalSales |-> salesByInvoiceType[i].totalSales,
         totalTransactions |-> salesByInvoiceType[i].totalTransactions,
         totalQuantity |-> salesByInvoiceType[i].totalQuantity,
         totalNetTotal |-> salesByInvoiceType[i].totalNetTotal]]

GetSalesByInvoiceTypeResponses(user, q, db) ==
    IF ~IsAdmin(user) THEN {[status |-> 403, body |-> Denied]}
    ELSE LET match(row) == BranchMonthMatch(q, row)
             groups == GroupStage(db, Matching(db, [i \in DOMAIN db |-> match(db[i])]), "InvoiceType")
         IN { LET filteredStatistics == RollUp(FormatInvoiceTypes(salesByInvoiceType))
                  grandTotalSales == SumSeq(filteredStatistics, "totalSales")
              IN [status |-> 200,
                  body |-> StatsBody(WithPercentage(filteredStatistics, grandTotalSales),
                                     grandTotalSales)]
              : salesByInvoiceType \in SortStage(groups, "totalSales desc") }

GetSalesByInvoiceType(user, q) ==
    /\ resp = NoResp
    /\ \E r \in GetSalesByInvoiceTypeResponses(user, q, sales) :
          resp' = Reply("getSalesByInvoiceType", user, q, r.status, r.body)
    /\ UNCHANGED <<pharmacies, sales, monthCall>>
    /\ UNCHANGED others

----------------------------------------------------------------------------
(* getSalesByMonth: GET /api/detailed-sales/stats/sales-by-month *)
(* Two aggregations, each awaited: other requests are served in between.   *)

monthNames ==
    << "January", "February", "March", "April", "May", "June",
       "July", "August", "September", "October", "November", "December" >>

\* first aggregation: the sales grouped by month, in ascending order
SalesByMonthStage(q, db) ==
    LET match(row) == MatchBranch(q, row)
    IN SortStage(GroupStage(db, Matching(db, [i \in DOMAIN db |-> match(db[i])]), "month"), "month asc")

\* second aggregation: group by day, then count the days of each month;
\* daysMap[key] || 0
DaysWithInvoicesCount(q, db, ym) ==
    LET match(row) == MatchBranch(q, row)
        days == {DayKey(db[j]) : j \in Matching(db, [i \in DOMAIN db |-> match(db[i])])}
    IN Cardinality({d \in days : d.year = ym.year /\ d.month = ym.month})

\* the average without its guard on the number of days
UnguardedAverage(totalSales, daysWithInvoicesCount) ==
    [num |-> totalSales, den |-> daysWithInvoicesCount]

\* averageSalesPerDay: daysWithInvoicesCount > 0 ? totalSales / daysWithInvoicesCount : 0,
\* kept as the exact fraction num / den
AverageSalesPerDay(totalSales, daysWithInvoicesCount) ==
    IF daysWithInvoicesCount > 0
    THEN [num |-> totalSales, den |-> daysWithInvoicesCount]
    ELSE [num |-> 0, den |-> 1]

MonthStatistics(salesByMonth, q, db) ==
    [i \in 1..Len(salesByMonth) |->
        LET item == salesByMonth[i]
            daysWithInvoicesCount == DaysWithInvoicesCount(q, db, item._id)
        IN [year |-> item._id.year,
            month |-> item._id.month,
            monthName |-> monthNames[item._id.month],
            totalSales |-> item.totalSales,
            totalTransactions |-> item.totalTransactions,
            totalQuantity |-> item.totalQuantity,
            totalNetTotal |-> item.totalNetTotal,
            averageSalesPerDay |-> AverageSalesPerDay(item.totalSales, daysWithInvoicesCount),
            daysWithInvoices |-> daysWithInvoicesCount]]

MonthBody(salesByMonth, q, db) ==
    LET statistics == MonthStatistics(salesByMonth, q, db)
        grandTotalSales == SumSeq(statistics, "totalSales")
    IN StatsBody(WithPercentage(statistics, grandTotalSales), grandTotalSales)

\* the handler run against one snapshot of the collection
GetSalesByMonthResponses(user, q, db) ==
    IF ~IsAdmin(user) THEN {[status |-> 403, body |-> Denied]}
    ELSE { [status |-> 200, body |-> MonthBody(salesByMonth, q, db)]
           : salesByMonth \in SalesByMonthStage(q, db) }

\* the handler when no other request is served between its two aggregations
GetSalesByMonth(user, q) ==
    /\ resp = NoResp
    /\ monthCall = <<>>
    /\ \E r \in GetSalesByMonthResponses(user, q, sales) :
          resp' = Reply("getSalesByMonth", user, q, r.status, r.body)
    /\ UNCHANGED <<pharmacies, sales, monthCall>>
    /\ UNCHANGED others

\* role check and first aggregation
GetSalesByMonthStart(user, q) ==
    /\ resp = NoResp
    /\ monthCall = <<>>
    /\ IF ~IsAdmin(user)
       THEN /\ resp' = Reply("getSalesByMonth", user, q, 403, Denied)
            /\ UNCHANGED monthCall
       ELSE /\ \E salesByMonth \in SalesByMonthStage(q, sales) :
                 monthCall' = <<[caller |-> user, query |-> q, salesByMonth |-> salesByMonth]>>
            /\ UNCHANGED resp
    /\ UNCHANGED <<pharmacies, sales>>
    /\ UNCHANGED others

\* second aggregation and response
GetSalesByMonthFinish ==
    /\ resp = NoResp
    /\ monthCall # <<>>
    /\ LET call == monthCall[1]
       IN resp' = Reply("getSalesByMonth", call.caller, call.query, 200,
                        MonthBody(call.salesByMonth, call.query, sales))
    /\ monthCall' = <<>>
    /\ UNCHANGED <<pharmacies, sales>>
    /\ UNCHANGED others

----------------------------------------------------------------------------
(* getSalesByDay: GET /api/detailed-sales/stats/sales-by-day *)

GetSalesByDayResponses(user, q, db) ==
    IF ~IsAdmin(user) THEN {[status |-> 403, body |-> Denied]}
    ELSE IF ~Has(q.ym) THEN {[status |-> 400, body |-> Denied]}
    ELSE LET match(row) == BranchMonthMatch(q, row)
             groups == GroupStage(db, Matching(db, [i \in DOMAIN db |-> match(db[i])]), "day")
         IN { LET statistics ==
                      [i \in 1..Len(salesByDay) |->
                          [year |-> salesByDay[i]._id.year,
                           month |-> salesByDay[i]._id.month,
                           day |-> salesByDay[i]._id.day,
                           totalSales |-> salesByDay[i].totalSales,
                           totalTransactions |-> salesByDay[i].totalTransactions,
                           totalQuantity |-> salesByDay[i].totalQuantity,
                           totalNetTotal |-> salesByDay[i].totalNetTotal]]
                  grandTotalSales == SumSeq(statistics, "totalSales")
              IN [status |-> 200,
                  body |-> StatsBody(WithPercentage(statistics, grandTotalSales),
                                     grandTotalSales)]
              : salesByDay \in SortStage(groups, "day asc") }

GetSalesByDay(user, q) ==
    /\ resp = NoResp
    /\ \E r \in GetSalesByDayResponses(user, q, sales) :
          resp' = Reply("getSalesByDay", user, q, r.status, r.body)
    /\ UNCHANGED <<pharmacies, sales, monthCall>>
    /\ UNCHANGED others

----------------------------------------------------------------------------
(* Writes to the DetailedSales collection *)

\* detailedSalesSchema: the enum of InvoiceType and the min: 0 validators
ValidSale(doc) ==
    /\ doc.InvoiceType \in {"Normal", "Return", "Exchange", "Other"}
    /\ doc.Quantity >= 0
    /\ doc.ItemsNetPrice >= 0
    /\ doc.NetTotal >= 0

\* createDetailedSale: POST /api/detailed-sales
CreateDetailedSale(user, body) ==
    /\ resp = NoResp
    /\ IF ~IsAdmin(user)
       THEN /\ resp' = Reply("createDetailedSale", user, NoQuery, 403, Denied)
            /\ UNCHANGED sales
       ELSE IF ~ValidSale(body)
       THEN /\ resp' = Reply("createDetailedSale", user, NoQuery, 400, Denied)
            /\ UNCHANGED sales
       ELSE \E id \in SaleIds \ DOMAIN sales :
              /\ sales' = [i \in DOMAIN sales \cup {id} |->
                              IF i = id THEN body ELSE sales[i]]
              /\ resp' = Reply("createDetailedSale", user, NoQuery, 201,
                               [success |-> TRUE, data |-> [id |-> id, doc |-> body]])
    /\ UNCHANGED <<pharmacies, monthCall>>
    /\ UNCHANGED others

RECURSIVE InsertAll(_, _)
\* the documents of the array stored under fresh ids, in array order
InsertAll(db, docs) ==
    IF docs = <<>> THEN db
    ELSE LET id == CHOOSE i \in SaleIds \ DOMAIN db : \A j \in SaleIds \ DOMAIN db : i <= j
         IN InsertAll([i \in DOMAIN db \cup {id} |-> IF i = id THEN docs[1] ELSE db[i]],
                      Tail(docs))

\* createBulkDetailedSales: POST /api/detailed-sales/bulk
\* insertMany(sales, {ordered: false}) stores the documents that pass validation
CreateBulkDetailedSales(user, items) ==
    /\ resp = NoResp
    /\ IF ~IsAdmin(user)
       THEN /\ resp' = Reply("createBulkDetailedSales", user, NoQuery, 403, Denied)
            /\ UNCHANGED sales
       ELSE IF Len(items) = 0
       THEN /\ resp' = Reply("createBulkDetailedSales", user, NoQuery, 400, Denied)
            /\ UNCHANGED sales
       ELSE LET valid == SelectSeq(items, ValidSale)
            IN /\ Len(valid) <= Cardinality(SaleIds \ DOMAIN sales)
               /\ sales' = InsertAll(sales, valid)
               /\ resp' = Reply("createBulkDetailedSales", user, NoQuery, 201,
                                [success |-> TRUE, count |-> Len(valid)])
    /\ UNCHANGED <<pharmacies, monthCall>>
    /\ UNCHANGED others

\* updateDetailedSale: PUT /api/detailed-sales/:id
\* findByIdAndUpdate(id, body, {new: true, runValidators: true})
UpdateDetailedSale(user, id, body) ==
    /\ resp = NoResp
    /\ IF ~IsAdmin(user)
       THEN /\ resp' = Reply("updateDetailedSale", user, [id |-> id], 403, Denied)
            /\ UNCHANGED sales
       ELSE IF id \notin DOMAIN sales
       THEN /\ resp' = Reply("updateDetailedSale", user, [id |-> id], 404, Denied)
            /\ UNCHANGED sales
       ELSE IF ~ValidSale(body)
       THEN /\ resp' = Reply("updateDetailedSale", user, [id |-> id], 400, Denied)
            /\ UNCHANGED sales
       ELSE /\ sales' = [sales EXCEPT ![id] = body]
            /\ resp' = Reply("updateDetailedSale", user, [id |-> id], 200,
                             [success |-> TRUE, data |-> [id |-> id, doc |-> body]])
    /\ UNCHANGED <<pharmacies, monthCall>>
    /\ UNCHANGED others

\* deleteDetailedSale: DELETE /api/detailed-sales/:id
DeleteDetailedSale(user, id) ==
    /\ resp = NoResp
    /\ IF ~IsAdmin(user)
       THEN /\ resp' = Reply("deleteDetailedSale", user, [id |-> id], 403, Denied)
            /\ UNCHANGED sales
       ELSE IF id \notin DOMAIN sales
       THEN /\ resp' = Reply("deleteDetailedSale", user, [id |-> id], 404, Denied)
            /\ UNCHANGED sales
       ELSE /\ sales' = [i \in DOMAIN sales \ {id} |-> sales[i]]
            /\ resp' = Reply("deleteDetailedSale", user, [id |-> id], 200,
                             [success |-> TRUE])
    /\ UNCHANGED <<pharmacies, monthCall>>
    /\ UNCHANGED others

----------------------------------------------------------------------------
(* The Pharmacy collection (routes without a role check) *)

\* createPharmacy: POST /api/pharmacies; a second pharmacy with the branchCode
\* violates the unique index, which is no ValidationError
CreatePharmacy(branchCode, doc) ==
    /\ resp = NoResp
    /\ IF branchCode \in DOMAIN pharmacies
       THEN /\ resp' = Reply("createPharmacy", NoUser, [id |-> branchCode], 500, Denied)
            /\ UNCHANGED pharmacies
       ELSE /\ pharmacies' = [b \in DOMAIN pharmacies \cup {branchCode} |->
                                 IF b = branchCode THEN doc ELSE pharmacies[b]]
            /\ resp' = Reply("createPharmacy", NoUser, [id |-> branchCode], 201,
                             [success |-> TRUE])
    /\ UNCHANGED <<sales, monthCall>>
    /\ UNCHANGED others

\* updatePharmacy: PUT /api/pharmacies/:id
UpdatePharmacy(branchCode, doc) ==
    /\ resp = NoResp
    /\ IF branchCode \notin DOMAIN pharmacies
       THEN /\ resp' = Reply("updatePharmacy", NoUser, [id |-> branchCode], 404, Denied)
            /\ UNCHANGED pharmacies
       ELSE /\ pharmacies' = [pharmacies EXCEPT ![branchCode] = doc]
            /\ resp' = Reply("updatePharmacy", NoUser, [id |-> branchCode], 200,
                             [success |-> TRUE])
    /\ UNCHANGED <<sales, monthCall>>
    /\ UNCHANGED others

\* deletePharmacy: DELETE /api/pharmacies/:id
DeletePharmacy(branchCode) ==
    /\ resp = NoResp
    /\ IF branchCode \notin DOMAIN pharmacies
       THEN /\ resp' = Reply("deletePharmacy", NoUser, [id |-> branchCode], 404, Denied)
            /\ UNCHANGED pharmacies
       ELSE /\ pharmacies' = [b \in DOMAIN pharmacies \ {branchCode} |-> pharmacies[b]]
            /\ resp' = Reply("deletePharmacy", NoUser, [id |-> branchCode], 200,
                             [success |-> TRUE])
    /\ UNCHANGED <<sales, monthCall>>
    /\ UNCHANGED others

----------------------------------------------------------------------------
(* The response is sent; the next request can be answered *)

Deliver ==
    /\ resp # NoResp
    /\ resp' = NoResp
    /\ UNCHANGED <<pharmacies, sales, monthCall>>
    /\ UNCHANGED others

----------------------------------------------------------------------------

\* the array of a bulk insert
BulkArrays(rows) == UNION {[1..n -> rows] : n \in 0..MaxBulk}

\* the listing and statistics requests by one of `callers`
ReadRequest(callers) ==
    \E user \in callers :
        \/ \E q \in BranchQueries :
              \/ GetDetailedSales(user, q)
              \/ GetSalesStatistics(user, q)
              \/ GetSalesByMonth(user, q)
        \/ \E q \in Queries :
              \/ GetAllCashDetailedSales(user, q)
              \/ GetCashDetailedSalesStatistics(user, q)
              \/ GetSalesBySalesName(user, q)
              \/ GetSalesByInvoiceType(user, q)
              \/ GetSalesByDay(user, q)
        \/ GetPharmaciesByBranchCode(user)

\* the requests by id and the writes by one of `callers`, with bodies of `rows`
WriteRequest(callers, rows) ==
    \E user \in callers :
        \/ \E id \in SaleIds : GetDetailedSale(user, id)
        \/ \E body \in rows : CreateDetailedSale(user, body)
        \/ \E items \in BulkArrays(rows) : CreateBulkDetailedSales(user, items)
        \/ \E id \in SaleIds, body \in rows : UpdateDetailedSale(user, id, body)
        \/ \E id \in SaleIds : DeleteDetailedSale(user, id)

PharmacyRequest ==
    \E branchCode \in BranchCodes :
        \/ \E doc \in PharmacyDocs : CreatePharmacy(branchCode, doc)
        \/ \E doc \in PharmacyDocs : UpdatePharmacy(branchCode, doc)
        \/ DeletePharmacy(branchCode)

\* the collections of the other controllers, empty
OthersEmpty ==
    /\ headerSales = <<>>
    /\ incentiveItems = <<>>
    /\ insuranceItems = <<>>
    /\ babyJoyItems = <<>>
    /\ visits = <<>>
    /\ users = <<>>
    /\ userSeq = 0
    /\ tokens = {}
    /\ calls = <<>>
    /\ contests = <<>>

----------------------------------------------------------------------------
(* Spec: access control. Every caller, every endpoint, two branches. *)

Init ==
    /\ pharmacies \in PharmacyCollections
    /\ sales \in Collections(AccessRows)
    /\ resp = NoResp
    /\ monthCall = <<>>
    /\ OthersEmpty

Next ==
    \/ ReadRequest(Principals)
    \/ WriteRequest(Principals, AccessBodies)
    \/ PharmacyRequest
    \/ Deliver

Spec == Init /\ [][Next]_vars

----------------------------------------------------------------------------
(* SpecAgg: the aggregations, asked by an administrator or a supervisor     *)
(* over every collection of sample documents.                               *)

InitAgg ==
    /\ pharmacies = [b \in {1} |-> [supervisor |-> "sup1"]]
    /\ sales \in Collections(SaleRows)
    /\ resp = NoResp
    /\ monthCall = <<>>
    /\ OthersEmpty

NextAgg ==
    \/ ReadRequest(Admins \cup Supervisors)
    \/ Deliver

SpecAgg == InitAgg /\ [][NextAgg]_vars

----------------------------------------------------------------------------
(* SpecMonth: getSalesByMonth with the writes of other requests between    *)
(* its two aggregations.                                                    *)

InitMonth ==
    /\ pharmacies = [b \in {1} |-> [supervisor |-> "sup1"]]
    /\ sales \in Collections(MonthRows)
    /\ resp = NoResp
    /\ monthCall = <<>>
    /\ OthersEmpty

NextMonth ==
    \/ \E user \in Admins, q \in BranchQueries : GetSalesByMonthStart(user, q)
    \/ GetSalesByMonthFinish
    \/ \E user \in Admins, body \in MonthRows : CreateDetailedSale(user, body)
    \/ \E user \in Admins, id \in SaleIds : DeleteDetailedSale(user, id)
    \/ Deliver

SpecMonth == InitMonth /\ [][NextMonth]_vars

----------------------------------------------------------------------------
(* Vocabulary of the properties *)

ListingEndpoints ==
    { "getDetailedSales", "getAllCashDetailedSales" }

StatisticsEndpoints ==
    { "getCashDetailedSalesStatistics", "getSalesStatistics", "getPharmaciesByBranchCode",
      "getSalesBySalesName", "getSalesByInvoiceType", "getSalesByMonth", "getSalesByDay" }

\* the listing and statistics endpoints that read a branchCode parameter
BranchCodeEndpoints ==
    (ListingEndpoints \cup StatisticsEndpoints) \ {"getPharmaciesByBranchCode"}

DetailedSalesEndpoints ==
    ListingEndpoints \cup StatisticsEndpoints \cup
    { "getDetailedSale", "createDetailedSale", "createBulkDetailedSales",
      "updateDetailedSale", "deleteDetailedSale" }

\* the answers the handler of an endpoint can give over a collection
Responses(endpoint, user, q, db, pharm) ==
    CASE endpoint = "getDetailedSales" -> GetDetailedSalesResponses(user, q, db)
      [] endpoint = "getAllCashDetailedSales" -> GetAllCashDetailedSalesResponses(user, q, db)
      [] endpoint = "getCashDetailedSalesStatistics" ->
            GetCashDetailedSalesStatisticsResponses(user, q, db)
      [] endpoint = "getSalesStatistics" -> GetSalesStatisticsResponses(user, q, db)
      [] endpoint = "getPharmaciesByBranchCode" ->
            GetPharmaciesByBranchCodeResponses(user, db, pharm)
      [] endpoint = "getSalesBySalesName" -> GetSalesBySalesNameResponses(user, q, db)
      [] endpoint = "getSalesByInvoiceType" -> GetSalesByInvoiceTypeResponses(user, q, db)
      [] endpoint = "getSalesByMonth" -> GetSalesByMonthResponses(user, q, db)
      [] endpoint = "getSalesByDay" -> GetSalesByDayResponses(user, q, db)

Answer == [status |-> resp.status, body |-> resp.body]

\* the branch codes of the pharmacies whose supervisor is the user
OwnBranches(user) == {b \in DOMAIN pharmacies : pharmacies[b].supervisor = user.id}

\* the collection without the documents of the branches outside / inside a set
OnlyBranches(db, branches) ==
    [i \in {j \in DOMAIN db : db[j].BranchCode \in branches} |-> db[i]]

WithoutBranch(db, b) ==
    [i \in {j \in DOMAIN db : db[j].BranchCode # b} |-> db[i]]

\* the documents a request's own filters select
Selected(endpoint, q) ==
    {i \in DOMAIN sales :
        /\ endpoint # "getPharmaciesByBranchCode" /\ Has(q.branchCode)
              => sales[i].BranchCode = Val(q.branchCode)
        /\ endpoint \notin {"getDetailedSales", "getSalesStatistics", "getSalesByMonth",
                            "getPharmaciesByBranchCode"} /\ Has(q.ym)
              => /\ sales[i].InvoiceDate.year = Val(q.ym).year
                 /\ sales[i].InvoiceDate.month = Val(q.ym).month
        /\ endpoint \in {"getAllCashDetailedSales", "getCashDetailedSalesStatistics"}
              => sales[i].CustomerName \in cashCustomerNames}

\* the number of documents a response accounts for
Counted ==
    CASE resp.endpoint \in ListingEndpoints -> resp.body.total
      [] resp.endpoint = "getSalesStatistics" -> resp.body.data.count
      [] resp.endpoint = "getPharmaciesByBranchCode" ->
            Cardinality({i \in DOMAIN sales :
                            \E k \in 1..Len(resp.body.statistics) :
                                resp.body.statistics[k].branchCode = sales[i].BranchCode})
      [] OTHER -> resp.body.summary.totalTransactions

----------------------------------------------------------------------------
(* C1: whatever a listing or statistics endpoint answers to a pharmacy      *)
(* supervisor is what it answers over the documents of the supervisor's own *)
(* branches alone (no other document influences it), and what it answers   *)
(* to an administrator accounts for every document the request's filters   *)
(* select.                                                                  *)

----------------------------------------------------------------------------
(* C2: a caller whose role is 'user' or 'pharmacist' is answered 403 by     *)
(* every detailed-sales and statistics endpoint, whatever the parameters    *)
(* and the collection.                                                      *)

C2_OtherRolesDenied ==
    resp.endpoint \in DetailedSalesEndpoints =>
        (resp.caller \in OtherRoles => resp.status = 403)

----------------------------------------------------------------------------
(* C3: a supervisor who names the branchCode of an existing pharmacy that   *)
(* is not theirs is answered 403, and the answer is the one the handler     *)
(* gives without the documents of that branch.                              *)

ForeignBranchAsked ==
    /\ resp.endpoint \in BranchCodeEndpoints
    /\ resp.caller \in Supervisors
    /\ Has(resp.query.branchCode)
    /\ Val(resp.query.branchCode) \in DOMAIN pharmacies
    /\ pharmacies[Val(resp.query.branchCode)].supervisor # resp.caller.id

\* C3: such a request is answered 403, and the answer is one the handler gives
\* over the collection without the documents of the branch named
C3_ForeignBranchDenied ==
    ForeignBranchAsked =>
        /\ resp.status = 403
        /\ Answer \in Responses(resp.endpoint, resp.caller, resp.query,
                                WithoutBranch(sales, Val(resp.query.branchCode)), pharmacies)

\* ... asked while the collection holds a line of that branch
C3_Witness ==
    /\ ForeignBranchAsked
    /\ \E i \in DOMAIN sales : sales[i].BranchCode = Val(resp.query.branchCode)

----------------------------------------------------------------------------
(* C4: a supervisor of no pharmacy who asks a statistics endpoint without   *)
(* branchCode is answered 200 with no groups.                               *)

C4_UnassignedSupervisorEmpty ==
    /\ resp.endpoint \in StatisticsEndpoints \ {"getSalesStatistics"}
    /\ resp.caller \in Supervisors
    /\ OwnBranches(resp.caller) = {}
    /\ ~Has(resp.query.branchCode)
    /\ resp.endpoint = "getSalesByDay" => Has(resp.query.ym)
    => /\ resp.status = 200
       /\ resp.body.statistics = <<>>

----------------------------------------------------------------------------
(* C5: a supervisor who names the branchCode of their own pharmacy is       *)
(* answered 200.                                                            *)

C5_OwnBranchServed ==
    /\ resp.endpoint \in BranchCodeEndpoints
    /\ resp.caller \in Supervisors
    /\ Has(resp.query.branchCode)
    /\ Val(resp.query.branchCode) \in OwnBranches(resp.caller)
    /\ resp.endpoint = "getSalesByDay" => Has(resp.query.ym)
    => resp.status = 200

----------------------------------------------------------------------------
(* Vocabulary of the aggregation properties *)

RECURSIVE SumGroups(_, _)
SumGroups(groups, f) ==
    IF groups = {} THEN 0
    ELSE LET g == CHOOSE x \in groups : TRUE IN g[f] + SumGroups(groups \ {g}, f)

Metrics(r) ==
    [totalSales |-> r.totalSales, totalTransactions |-> r.totalTransactions,
     totalQuantity |-> r.totalQuantity, totalNetTotal |-> r.totalNetTotal]

Answered(endpoint) == resp.endpoint = endpoint /\ resp.status = 200

\* the raw InvoiceType groups of the request answered
RawTypeGroups ==
    GroupStage(sales, Selected("getSalesByInvoiceType", resp.query), "InvoiceType")

PairGroups(k) ==
    {g \in RawTypeGroups : ToLowerCase(g._id) \in {RollUpPairs[k].sale, RollUpPairs[k].back}}

PassedGroups == {g \in RawTypeGroups : ToLowerCase(g._id) \notin PairMembers}

----------------------------------------------------------------------------
(* C6: the list of sales-by-invoice-type holds every raw group outside the  *)
(* six pairs with its metrics unchanged, one 'Total X' row per pair with a  *)
(* member present whose metrics are the sums over the present members, and  *)
(* nothing else.                                                            *)

C6_RollUp ==
    Answered("getSalesByInvoiceType") =>
        LET out == resp.body.statistics
            present == {k \in 1..Len(RollUpPairs) : PairGroups(k) # {}}
        IN /\ Len(out) = Cardinality(PassedGroups) + Cardinality(present)
           /\ \A g \in PassedGroups :
                 \E i \in 1..Len(out) :
                     out[i].invoiceType = g._id /\ Metrics(out[i]) = Metrics(g)
           /\ \A k \in present :
                 \E i \in 1..Len(out) :
                     /\ out[i].invoiceType = RollUpPairs[k].label
                     /\ out[i].totalSales = SumGroups(PairGroups(k), "totalSales")
                     /\ out[i].totalTransactions = SumGroups(PairGroups(k), "totalTransactions")
                     /\ out[i].totalQuantity = SumGroups(PairGroups(k), "totalQuantity")
                     /\ out[i].totalNetTotal = SumGroups(PairGroups(k), "totalNetTotal")
           /\ \A i \in 1..Len(out) : ToLowerCase(out[i].invoiceType) \notin PairMembers

----------------------------------------------------------------------------
(* C7: the summary of every statistics response carries the sum of          *)
(* ItemsNetPrice, the number and the sum of Quantity of the documents the   *)
(* request's filters select.                                                *)

ConservingEndpoints ==
    { "getSalesBySalesName", "getSalesByInvoiceType", "getSalesByMonth", "getSalesByDay",
      "getCashDetailedSalesStatistics" }

\* C7: the summary's totals are the sums over the documents selected
C7_Conservation ==
    resp.endpoint \in ConservingEndpoints /\ resp.status = 200 =>
        LET rows == Selected(resp.endpoint, resp.query)
        IN /\ resp.body.summary.totalSales = SumField(sales, rows, "ItemsNetPrice")
           /\ resp.body.summary.totalTransactions = Cardinality(rows)
           /\ resp.body.summary.totalQuantity = SumField(sales, rows, "Quantity")

----------------------------------------------------------------------------
(* C8: in a response with percentages, either every percentage is the       *)
(* group's totalSales / grand total x 100 and they sum to 100, or the grand *)
(* total is 0 and every percentage is 0; none is a division by zero.        *)

PercentageEndpoints ==
    { "getPharmaciesByBranchCode", "getSalesBySalesName", "getSalesByInvoiceType",
      "getSalesByMonth", "getSalesByDay" }

PercentagesGiven == resp.endpoint \in PercentageEndpoints /\ resp.status = 200

NoDivisionByZero ==
    \A i \in 1..Len(resp.body.statistics) : resp.body.statistics[i].percentage.den # 0

\* every percentage is totalSales * 100 / grand total, and their sum is 100
SumTo100 ==
    LET out == resp.body.statistics
        grand == resp.body.summary.totalSales
        nums == [i \in 1..Len(out) |-> [n |-> out[i].percentage.num]]
    IN /\ grand # 0
       /\ \A i \in 1..Len(out) :
             /\ out[i].percentage.den = grand
             /\ out[i].percentage.num = out[i].totalSales * 100
       /\ SumSeq(nums, "n") = 100 * grand

AllZero ==
    \A i \in 1..Len(resp.body.statistics) : resp.body.statistics[i].percentage.num = 0

----------------------------------------------------------------------------
(* C9: every month of sales-by-month has averageSalesPerDay = totalSales /  *)
(* daysWithInvoices when daysWithInvoices > 0 and 0 when it is 0; never a   *)
(* division by zero.                                                        *)

C9_AverageSalesPerDay ==
    Answered("getSalesByMonth") =>
        \A i \in 1..Len(resp.body.statistics) :
            LET m == resp.body.statistics[i]
            IN /\ m.averageSalesPerDay.den # 0
               /\ m.daysWithInvoices > 0 =>
                     /\ m.averageSalesPerDay.num = m.totalSales
                     /\ m.averageSalesPerDay.den = m.daysWithInvoices
               /\ m.daysWithInvoices = 0 => m.averageSalesPerDay.num = 0

\* a month whose invoices were deleted between the two aggregations, beside a
\* month with a day of invoices
C9_Witness ==
    /\ Answered("getSalesByMonth")
    /\ \E i, j \in 1..Len(resp.body.statistics) :
          /\ resp.body.statistics[i].daysWithInvoices = 0
          /\ resp.body.statistics[i].totalSales > 0
          /\ resp.body.statistics[j].daysWithInvoices > 0

----------------------------------------------------------------------------
(* C10: the list of every statistics endpoint grouping by branch code,      *)
(* sales name, invoice type or customer name is in non-increasing order of  *)
(* totalSales, the 'Total X' rows included.                                 *)

RankedEndpoints ==
    { "getPharmaciesByBranchCode", "getSalesBySalesName", "getSalesByInvoiceType",
      "getCashDetailedSalesStatistics" }

\* C10: no row of the list has a smaller totalSales than the row after it
C10_SortedByTotalSales ==
    resp.endpoint \in RankedEndpoints /\ resp.status = 200 =>
        \A i \in 1..Len(resp.body.statistics) :
            i < Len(resp.body.statistics) =>
                resp.body.statistics[i].totalSales >= resp.body.statistics[i + 1].totalSales

----------------------------------------------------------------------------
(* The HeaderSales controller: the by-month reports *)

MaxHeader == 2         \* documents in the HeaderSales collection

\* headerSalesSchema.Month: the enum, in calendar order
MonthEnum ==
    <<"Jan", "Feb", "Mar", "Apr", "May", "Jun", "Jul", "Aug", "Sep", "Oct", "Nov", "Dec">>

\* the same names in the order of their strings, which is how $sort compares them
MonthStrings ==
    <<"Apr", "Aug", "Dec", "Feb", "Jan", "Jul", "Jun", "Mar", "May", "Nov", "Oct", "Sep">>

IndexOf(seq, x) == CHOOSE i \in 1..Len(seq) : seq[i] = x

StringLeq(a, b) == IndexOf(MonthStrings, a) <= IndexOf(MonthStrings, b)

HeaderYears == {2024, 2025}
HeaderMonths == {"Jan", "Feb", "Apr"}
HeaderTypes == {"Normal", "Online", "Insurance", "ReturnWasfaty"}

\* the invoice types /insurance/i, /wasf/i and /return/i match
InsuranceLike == {t \in HeaderTypes : t \in {"Insurance", "ReturnInsurance"}}
WasfLike == {t \in HeaderTypes : t \in {"Wasfaty", "ReturnWasfaty"}}
ReturnLike == {t \in HeaderTypes : t \in {"Return", "ReturnOnline", "ReturnInsurance", "ReturnWasfaty"}}

HeaderRows ==
    [Year : HeaderYears, Month : HeaderMonths, InvoiceType : HeaderTypes,
     TotalAmountAfterDiscount : {2}]

HeaderIds == 1..MaxHeader

HeaderCollections == UNION {[S -> HeaderRows] : S \in SUBSET HeaderIds}

\* req.query.Year, after parseInt
YearQueries == {Absent} \cup {<<y>> : y \in HeaderYears}

HeaderEndpoints ==
    { "getHeaderSalesByMonth", "getCashHeaderSalesByMonth", "getInsuranceHeaderSalesByMonth",
      "getWasfatyHeaderSalesByMonth", "getOnlineHeaderSalesByMonth" }

\* the invoice types an endpoint's $match keeps
HeaderMatchTypes(endpoint) ==
    CASE endpoint = "getInsuranceHeaderSalesByMonth" -> InsuranceLike
      [] endpoint = "getWasfatyHeaderSalesByMonth" -> WasfLike
      [] endpoint = "getOnlineHeaderSalesByMonth" -> {"Online", "ReturnOnline"}
      [] OTHER -> HeaderTypes

\* matchQuery: the invoice types of the endpoint, and Year when it is given
HeaderMatching(endpoint, year, db) ==
    {i \in DOMAIN db :
        /\ db[i].InvoiceType \in HeaderMatchTypes(endpoint)
        /\ Has(year) => db[i].Year = Val(year)}

\* HeaderSales.distinct('InvoiceType', {InvoiceType: {$regex: /insurance/i}})
insuranceInvoiceTypes(db) ==
    {db[i].InvoiceType : i \in {j \in DOMAIN db : db[j].InvoiceType \in InsuranceLike}}

\* the $sum columns of an endpoint's $group: column -> the invoice types it adds up
HeaderColumns(endpoint, db) ==
    CASE endpoint = "getHeaderSalesByMonth" ->
            [c \in {"TotalAmountAfterDiscount"} |-> HeaderTypes]
      [] endpoint = "getCashHeaderSalesByMonth" ->
            [c \in {"CashCustomer", "CreditCustomer", "Normal", "Online", "Return",
                    "ReturnCashCustomer", "ReturnCreditCustomer", "ReturnOnline"} |-> {c}]
      [] endpoint = "getInsuranceHeaderSalesByMonth" ->
            [c \in insuranceInvoiceTypes(db) |-> {c}]
      [] endpoint = "getWasfatyHeaderSalesByMonth" ->
            [c \in {"Wasfaty", "ReturnWasfaty"} |->
                IF c = "Wasfaty" THEN WasfLike \ ReturnLike ELSE WasfLike \cap ReturnLike]
      [] endpoint = "getOnlineHeaderSalesByMonth" ->
            [c \in {"Online", "ReturnOnline"} |-> {c}]

RECURSIVE SumColumns(_, _)
SumColumns(sums, cols) ==
    IF cols = {} THEN 0
    ELSE LET c == CHOOSE x \in cols : TRUE IN sums[c] + SumColumns(sums, cols \ {c})

\* $group by {Year, Month} with the endpoint's columns and the count, then the
\* $project that adds the columns up into Total
HeaderGroupStage(db, ids, columns) ==
    { LET members == {i \in ids : db[i].Year = k[1] /\ db[i].Month = k[2]}
          sums == [c \in DOMAIN columns |->
                      SumField(db, {i \in members : db[i].InvoiceType \in columns[c]},
                               "TotalAmountAfterDiscount")]
      IN [Year |-> k[1], Month |-> k[2], sums |-> sums,
          totalCount |-> Cardinality(members),
          Total |-> SumColumns(sums, DOMAIN columns)]
      : k \in {<<db[i].Year, db[i].Month>> : i \in ids} }

\* {$sort: {'_id.Year': 1, '_id.Month': 1}}: Month is compared as a string
ByYearMonthString(a, b) ==
    \/ a.Year < b.Year
    \/ a.Year = b.Year /\ StringLeq(a.Month, b.Month)

HeaderSortStage(groups) ==
    LET n == Cardinality(groups)
    IN {s \in [1..n -> groups] :
          /\ \A i, j \in 1..n : i # j => s[i] # s[j]
          /\ \A i \in 1..n : i < n => ByYearMonthString(s[i], s[i + 1])}

\* availableYears.sort((a, b) => b - a)
sortedYears(years) ==
    CHOOSE s \in [1..Cardinality(years) -> years] :
        \A i, j \in 1..Cardinality(years) : i < j => s[i] > s[j]

\* HeaderSales.distinct('Year'); the insurance report asks for the years of its own types
availableYears(endpoint, db) ==
    {db[i].Year : i \in {j \in DOMAIN db :
                            endpoint = "getInsuranceHeaderSalesByMonth"
                                => db[j].InvoiceType \in InsuranceLike}}

\* the by-month reports answer every authenticated caller
GetHeaderSalesByMonthResponses(endpoint, year, db) ==
    { [status |-> 200,
       body |-> [success |-> TRUE, data |-> salesByMonth,
                 grandTotals |-> [Total |-> SumSeq(salesByMonth, "Total"),
                                  totalCount |-> SumSeq(salesByMonth, "totalCount")],
                 availableYears |-> sortedYears(availableYears(endpoint, db)),
                 selectedYear |-> year]]
      : salesByMonth \in
            HeaderSortStage(HeaderGroupStage(db, HeaderMatching(endpoint, year, db),
                                             HeaderColumns(endpoint, db))) }

GetHeaderSalesByMonth(user, endpoint, year) ==
    /\ resp = NoResp
    /\ \E r \in GetHeaderSalesByMonthResponses(endpoint, year, headerSales) :
          resp' = Reply(endpoint, user, [Year |-> year], r.status, r.body)
    /\ UNCHANGED <<salesVars, headerVars, itemVars, visitVars, userVars>>

----------------------------------------------------------------------------
(* SpecHeader: the by-month reports over every collection of sample invoices *)

InitHeader ==
    /\ headerSales \in HeaderCollections
    /\ pharmacies = <<>>
    /\ sales = <<>>
    /\ resp = NoResp
    /\ monthCall = <<>>
    /\ incentiveItems = <<>>
    /\ insuranceItems = <<>>
    /\ babyJoyItems = <<>>
    /\ visits = <<>>
    /\ users = <<>>
    /\ userSeq = 0
    /\ tokens = {}
    /\ calls = <<>>
    /\ contests = <<>>

NextHeader ==
    \/ \E user \in Principals, endpoint \in HeaderEndpoints, year \in YearQueries :
          GetHeaderSalesByMonth(user, endpoint, year)
    \/ Deliver

SpecHeader == InitHeader /\ [][NextHeader]_vars

----------------------------------------------------------------------------
(* C11: every month- or day-grouped response lists its groups in ascending  *)
(* order of year, then calendar month January..December, then day.          *)

CalendarMonth(name) == IndexOf(MonthEnum, name)

\* C11: in the list of a header-sales by-month report no group comes before a
\* group of an earlier year or of an earlier calendar month of its year
C11_Chronological ==
    /\ resp.endpoint \in HeaderEndpoints /\ resp.status = 200 =>
          \A i, j \in 1..Len(resp.body.data) :
              i < j =>
                  \/ resp.body.data[i].Year < resp.body.data[j].Year
                  \/ /\ resp.body.data[i].Year = resp.body.data[j].Year
                     /\ CalendarMonth(resp.body.data[i].Month)
                           < CalendarMonth(resp.body.data[j].Month)
    /\ resp.endpoint \in {"getSalesByMonth", "getSalesByDay"} /\ resp.status = 200 =>
          \A i, j \in 1..Len(resp.body.statistics) :
              i < j =>
                  LET a == resp.body.statistics[i]
                      b == resp.body.statistics[j]
                  IN \/ a.year < b.year
                     \/ a.year = b.year /\ a.month < b.month
                     \/ /\ a.year = b.year /\ a.month = b.month
                        /\ resp.endpoint = "getSalesByDay" /\ a.day < b.day

----------------------------------------------------------------------------
(* The item catalogues: IncentiveItem, InsuranceItem and BabyJoy.           *)
(* A document or a request body is a function from the names of the fields *)
(* it carries to their values.  The IncentiveItem documents follow the     *)
(* schema whose derived field is 'incentive value', the name the handlers   *)
(* read and write.                                                          *)

MaxItems == 2
MaxBatch == 2

ItemIds == 1..MaxItems

SapCodes == {101, 102}

\* the values a request gives to a field of an incentive item
FieldValues(field) ==
    CASE field = "SAP_Code" -> SapCodes
      [] field = "Price" -> {0, 2}
      [] field = "IncentivePercentage" -> {0, 1}
      [] field = "incentive value" -> {5}

ItemFields == {"SAP_Code", "Price", "IncentivePercentage", "incentive value"}

\* req.body of the create and update requests: any of the fields, or none
ItemBodies ==
    UNION { {b \in [D -> SapCodes \cup {0, 1, 2, 5}] : \A f \in D : b[f] \in FieldValues(f)}
            : D \in SUBSET ItemFields }

\* the items of a bulk request: documents the schema accepts
BatchItems ==
    {b \in ItemBodies : {"SAP_Code", "Price"} \subseteq DOMAIN b
                        /\ "incentive value" \notin DOMAIN b}

Batches(items) == UNION {[1..n -> items] : n \in 0..MaxBatch}

\* the items of the InsuranceItem and BabyJoy bulk requests, by their unique key
KeyOnly(key) == {[f \in {key} |-> c] : c \in SapCodes}

\* JavaScript truthiness of body[field]: undefined and 0 are falsy
Truthy(body, field) == field \in DOMAIN body /\ body[field] # 0

Put(body, field, value) ==
    [f \in DOMAIN body \cup {field} |-> IF f = field THEN value ELSE body[f]]

\* if (Price && IncentivePercentage && !body['incentive value'])
\*     body['incentive value'] = Price * IncentivePercentage
WithIncentive(body) ==
    IF Truthy(body, "Price") /\ Truthy(body, "IncentivePercentage")
       /\ ~Truthy(body, "incentive value")
    THEN Put(body, "incentive value", body["Price"] * body["IncentivePercentage"])
    ELSE body

\* incentiveItemSchema: the required fields and the min / max validators
ValidItem(doc) ==
    /\ {"SAP_Code", "Price"} \subseteq DOMAIN doc
    /\ doc["Price"] >= 0
    /\ "IncentivePercentage" \in DOMAIN doc =>
          doc["IncentivePercentage"] >= 0 /\ doc["IncentivePercentage"] <= 1
    /\ "incentive value" \in DOMAIN doc => doc["incentive value"] >= 0

\* the unique index on key: a stored document other than id carries this value
KeyTaken(db, key, value, id) ==
    \E i \in DOMAIN db \ {id} : db[i][key] = value

\* a write that replaces the stored documents instead of adding one
Overwritten(db, id, doc) ==
    IF db = <<>> THEN [i \in {id} |-> doc] ELSE [i \in DOMAIN db |-> doc]

Stored(db, id, doc) ==
    [i \in DOMAIN db \cup {id} |-> IF i = id THEN doc ELSE db[i]]

\* the _id given to the next document: never one that is stored
NextId(db) ==
    IF DOMAIN db = {} THEN 1
    ELSE 1 + CHOOSE i \in DOMAIN db : \A j \in DOMAIN db : j <= i

RECURSIVE InsertMany(_, _, _, _)
\* insertMany(docs, {ordered: false}): every document is tried in array order;
\* a duplicate of the unique key is a write error carrying the 0-based index of
\* the document, the others are stored
InsertMany(db, docs, key, index) ==
    IF docs = <<>> THEN [db |-> db, data |-> <<>>, writeErrors |-> <<>>]
    ELSE IF KeyTaken(db, key, docs[1][key], 0)
    THEN LET rest == InsertMany(db, Tail(docs), key, index + 1)
         IN [rest EXCEPT !.writeErrors = <<index>> \o @]
    ELSE LET id == NextId(db)
             rest == InsertMany(Stored(db, id, docs[1]), Tail(docs), key, index + 1)
         IN [rest EXCEPT !.data = <<id>> \o @]

\* the body every bulk handler has in common, after its role check
BulkResult(db, docs, key) ==
    IF Len(docs) = 0
    THEN [status |-> 400, body |-> Denied, db |-> db]
    ELSE LET r == InsertMany(db, docs, key, 0)
         IN IF r.writeErrors = <<>>
            THEN [status |-> 201,
                  body |-> [success |-> TRUE, count |-> Len(r.data), data |-> r.data],
                  db |-> r.db]
            ELSE [status |-> 400,
                  body |-> [success |-> FALSE, errors |-> r.writeErrors],
                  db |-> r.db]

\* createIncentiveItem: POST /api/incentive-items
CreateIncentiveItem(user, body) ==
    /\ resp = NoResp
    /\ LET doc == WithIncentive(body)
           id == NextId(incentiveItems)
       IN IF ~IsAdmin(user)
          THEN /\ resp' = Reply("createIncentiveItem", user, NoQuery, 403, Denied)
               /\ UNCHANGED incentiveItems
          ELSE IF ~ValidItem(doc)
          THEN /\ resp' = Reply("createIncentiveItem", user, [body |-> body], 400, Denied)
               /\ UNCHANGED incentiveItems
          ELSE IF KeyTaken(incentiveItems, "SAP_Code", doc["SAP_Code"], 0)
          THEN /\ resp' = Reply("createIncentiveItem", user, [body |-> body], 400, Denied)
               /\ UNCHANGED incentiveItems
          ELSE /\ id \in ItemIds
               /\ incentiveItems' = Stored(incentiveItems, id, doc)
               /\ resp' = Reply("createIncentiveItem", user, [body |-> body], 201,
                                [success |-> TRUE, data |-> [id |-> id, doc |-> doc]])
    /\ UNCHANGED <<insuranceItems, babyJoyItems>>
    /\ UNCHANGED <<salesVars, headerVars, visitVars, userVars>>

\* updateIncentiveItem: PUT /api/incentive-items/:id
\* findByIdAndUpdate(id, body, {new: true, runValidators: true}) sets the fields
\* of the body and leaves the others
UpdateIncentiveItem(user, id, body) ==
    /\ resp = NoResp
    /\ LET existing == incentiveItems[id]
           price == IF "Price" \in DOMAIN body THEN <<body["Price"]>>
                    ELSE IF "Price" \in DOMAIN existing THEN <<existing["Price"]>>
                    ELSE Absent
           percentage ==
               IF "IncentivePercentage" \in DOMAIN body
               THEN <<body["IncentivePercentage"]>>
               ELSE IF "IncentivePercentage" \in DOMAIN existing
               THEN <<existing["IncentivePercentage"]>>
               ELSE Absent
           update ==
               IF /\ Truthy(body, "Price") \/ Truthy(body, "IncentivePercentage")
                  /\ id \in DOMAIN incentiveItems
                  /\ Has(price) /\ Val(price) # 0
                  /\ Has(percentage) /\ Val(percentage) # 0
               THEN Put(body, "incentive value", Val(price) * Val(percentage))
               ELSE body
           doc == [f \in DOMAIN existing \cup DOMAIN update |->
                      IF f \in DOMAIN update THEN update[f] ELSE existing[f]]
       IN IF ~IsAdmin(user)
          THEN /\ resp' = Reply("updateIncentiveItem", user, NoQuery, 403, Denied)
               /\ UNCHANGED incentiveItems
          ELSE IF id \notin DOMAIN incentiveItems
          THEN /\ resp' = Reply("updateIncentiveItem", user, [id |-> id, body |-> body],
                                404, Denied)
               /\ UNCHANGED incentiveItems
          ELSE IF "SAP_Code" \in DOMAIN update
                  /\ KeyTaken(incentiveItems, "SAP_Code", update["SAP_Code"], id)
          THEN /\ resp' = Reply("updateIncentiveItem", user, [id |-> id, body |-> body],
                                400, Denied)
               /\ UNCHANGED incentiveItems
          ELSE /\ incentiveItems' = [incentiveItems EXCEPT ![id] = doc]
               /\ resp' = Reply("updateIncentiveItem", user, [id |-> id, body |-> body],
                                200, [success |-> TRUE, data |-> [id |-> id, doc |-> doc]])
    /\ UNCHANGED <<insuranceItems, babyJoyItems>>
    /\ UNCHANGED <<salesVars, headerVars, visitVars, userVars>>

\* bulkCreateIncentiveItems: POST /api/incentive-items/bulk
BulkCreateIncentiveItems(user, items) ==
    /\ resp = NoResp
    /\ IF ~IsAdmin(user)
       THEN /\ resp' = Reply("bulkCreateIncentiveItems", user, NoQuery, 403, Denied)
            /\ UNCHANGED incentiveItems
       ELSE LET processedItems == [i \in DOMAIN items |-> WithIncentive(items[i])]
                r == BulkResult(incentiveItems, processedItems, "SAP_Code")
            IN /\ DOMAIN r.db \subseteq ItemIds
               /\ incentiveItems' = r.db
               /\ resp' = Reply("bulkCreateIncentiveItems", user, [items |-> items],
                                r.status, r.body)
    /\ UNCHANGED <<insuranceItems, babyJoyItems>>
    /\ UNCHANGED <<salesVars, headerVars, visitVars, userVars>>

\* bulkCreateInsuranceItems: POST /api/insurance-items/bulk
BulkCreateInsuranceItems(user, items) ==
    /\ resp = NoResp
    /\ IF ~IsAdmin(user)
       THEN /\ resp' = Reply("bulkCreateInsuranceItems", user, NoQuery, 403, Denied)
            /\ UNCHANGED insuranceItems
       ELSE LET r == BulkResult(insuranceItems, items, "SAP_Code")
            IN /\ DOMAIN r.db \subseteq ItemIds
               /\ insuranceItems' = r.db
               /\ resp' = Reply("bulkCreateInsuranceItems", user, [items |-> items],
                                r.status, r.body)
    /\ UNCHANGED <<incentiveItems, babyJoyItems>>
    /\ UNCHANGED <<salesVars, headerVars, visitVars, userVars>>

\* bulkCreateBabyJoyItems: POST /api/baby-joy/bulk
BulkCreateBabyJoyItems(user, items) ==
    /\ resp = NoResp
    /\ IF ~IsAdmin(user)
       THEN /\ resp' = Reply("bulkCreateBabyJoyItems", user, NoQuery, 403, Denied)
            /\ UNCHANGED babyJoyItems
       ELSE LET r == BulkResult(babyJoyItems, items, "Material")
            IN /\ DOMAIN r.db \subseteq ItemIds
               /\ babyJoyItems' = r.db
               /\ resp' = Reply("bulkCreateBabyJoyItems", user, [items |-> items],
                                r.status, r.body)
    /\ UNCHANGED <<incentiveItems, insuranceItems>>
    /\ UNCHANGED <<salesVars, headerVars, visitVars, userVars>>

----------------------------------------------------------------------------
(* SpecItems: the writes of the IncentiveItem collection, and SpecBulk: the *)
(* bulk inserts of the three catalogues, both from empty collections.       *)

ItemCallers == Admins \cup {u \in Principals : u.role = "user"}

InitItems ==
    /\ pharmacies = <<>>
    /\ sales = <<>>
    /\ resp = NoResp
    /\ monthCall = <<>>
    /\ OthersEmpty

NextItems ==
    \/ \E user \in ItemCallers, body \in ItemBodies : CreateIncentiveItem(user, body)
    \/ \E user \in ItemCallers, id \in ItemIds, body \in ItemBodies :
          UpdateIncentiveItem(user, id, body)
    \/ \E user \in ItemCallers, items \in Batches(BatchItems) :
          BulkCreateIncentiveItems(user, items)
    \/ Deliver

NextBulk ==
    \/ \E user \in ItemCallers, items \in Batches(BatchItems) :
          BulkCreateIncentiveItems(user, items)
    \/ \E user \in ItemCallers, items \in Batches(KeyOnly("SAP_Code")) :
          BulkCreateInsuranceItems(user, items)
    \/ \E user \in ItemCallers, items \in Batches(KeyOnly("Material")) :
          BulkCreateBabyJoyItems(user, items)
    \/ Deliver

SpecBulk == InitItems /\ [][NextBulk]_vars

SpecItems == InitItems /\ [][NextItems]_vars

----------------------------------------------------------------------------
(* C12: a bulk insert in which some items collide on the unique key stores  *)
(* the others and answers with the successes and the failures.              *)

\* the positions of the batch whose key is stored already or is the key of an
\* earlier item of the batch
Colliding(before, items, key) ==
    {i \in 1..Len(items) :
        \/ KeyTaken(before, key, items[i][key], 0)
        \/ \E j \in 1..(i - 1) : items[j][key] = items[i][key]}

\* what the step of one bulk handler owes to an administrator's batch with a collision
PartialSuccess(endpoint, key, before, after) ==
    LET items == resp'.query.items
        failed == Colliding(before, items, key)
        added == DOMAIN after \ DOMAIN before
    IN resp = NoResp /\ resp'.endpoint = endpoint /\ IsAdmin(resp'.caller)
       /\ failed # {} =>
          /\ \A id \in DOMAIN before : after[id] = before[id]
          /\ \A i \in 1..Len(items) \ failed :
                \E id \in added : after[id][key] = items[i][key]
          /\ Cardinality(added) = Len(items) - Cardinality(failed)
          /\ "errors" \in DOMAIN resp'.body
          /\ {resp'.body.errors[n] : n \in 1..Len(resp'.body.errors)}
                = {i - 1 : i \in failed}
          /\ "count" \in DOMAIN resp'.body
          /\ resp'.body.count = Cardinality(added)

\* C12: after a bulk insert with colliding items, every item that collides with
\* nothing is stored, no colliding item is stored, and the response reports the
\* number of stored items and the index of every failed item
C12_BulkPartialSuccess ==
    [][ /\ PartialSuccess("bulkCreateIncentiveItems", "SAP_Code",
                          incentiveItems, incentiveItems')
        /\ PartialSuccess("bulkCreateInsuranceItems", "SAP_Code",
                          insuranceItems, insuranceItems')
        /\ PartialSuccess("bulkCreateBabyJoyItems", "Material",
                          babyJoyItems, babyJoyItems') ]_vars

----------------------------------------------------------------------------
(* C13: an incentive item created with a Price and an IncentivePercentage   *)
(* and no incentive value is stored with their product as incentive value.  *)

\* the request gives Price and IncentivePercentage and no incentive value
GivesOperandsOnly(body) ==
    /\ {"Price", "IncentivePercentage"} \subseteq DOMAIN body
    /\ "incentive value" \notin DOMAIN body

HasProduct(doc, body) ==
    /\ "incentive value" \in DOMAIN doc
    /\ doc["incentive value"] = body["Price"] * body["IncentivePercentage"]

\* C13: the document stored by a create, or by a bulk insert, of an item that
\* gives Price p and IncentivePercentage q and no incentive value carries the
\* incentive value p * q
C13_IncentiveValueOnCreate ==
    /\ resp.endpoint = "createIncentiveItem" /\ resp.status = 201
       /\ GivesOperandsOnly(resp.query.body) =>
          HasProduct(incentiveItems[resp.body.data.id], resp.query.body)
    /\ resp.endpoint = "bulkCreateIncentiveItems" /\ resp.status = 201 =>
          \A i \in 1..Len(resp.query.items) :
              GivesOperandsOnly(resp.query.items[i]) =>
                  \E id \in DOMAIN incentiveItems :
                      /\ incentiveItems[id]["SAP_Code"] = resp.query.items[i]["SAP_Code"]
                      /\ HasProduct(incentiveItems[id], resp.query.items[i])

----------------------------------------------------------------------------
(* C14: an update that changes Price or IncentivePercentage leaves the      *)
(* stored incentive value equal to the product of the stored operands.      *)

\* the body gives Price or IncentivePercentage a value the document has not
ChangesOperand(doc, body) ==
    \E f \in {"Price", "IncentivePercentage"} :
        f \in DOMAIN body /\ (f \in DOMAIN doc => doc[f] # body[f])

\* C14: after a successful update whose body changes Price or
\* IncentivePercentage, the stored incentive value is the stored Price times
\* the stored IncentivePercentage
C14_IncentiveValueOnUpdate ==
    [][ /\ resp = NoResp
        /\ resp'.endpoint = "updateIncentiveItem" /\ resp'.status = 200
        /\ ChangesOperand(incentiveItems[resp'.query.id], resp'.query.body)
        /\ "IncentivePercentage" \in DOMAIN incentiveItems'[resp'.query.id]
        => HasProduct(incentiveItems'[resp'.query.id], incentiveItems'[resp'.query.id])
      ]_vars

----------------------------------------------------------------------------
(* The Visit controller (routes/visitRoutes.js: protect on every route,     *)
(* the admin middleware on the two GET routes).                             *)

MaxVisits == 2

VisitIds == 1..MaxVisits

\* req.body of POST /api/visits: path and method, each given or not, and a
\* user field the client may add
VisitBodies ==
    [path : {Absent, <<"/home">>, <<"/sales">>},
     method : {Absent, <<"POST">>, <<"HEAD">>},
     user : {Absent, <<"sup1">>}]

\* a user taken from the body when it gives one
BodyUser(user, body) == IF Has(body.user) THEN Val(body.user) ELSE user.id

\* user: req.user._id
VisitUser(user, body) == user.id

\* visitSchema: the enum of method
ValidVisit(doc) == doc.method \in {"GET", "POST", "PUT", "DELETE", "PATCH"}

\* createVisit: POST /api/visits, for any authenticated user
CreateVisit(user, body) ==
    /\ resp = NoResp
    /\ LET doc == [user |-> VisitUser(user, body), path |-> Val(body.path),
                   method |-> IF Has(body.method) THEN Val(body.method) ELSE "GET"]
           id == Cardinality(DOMAIN visits) + 1
       IN IF ~Has(body.path)
          THEN /\ resp' = Reply("createVisit", user, body, 400, Denied)
               /\ UNCHANGED visits
          ELSE IF ~ValidVisit(doc)
          THEN /\ resp' = Reply("createVisit", user, body, 500, Denied)
               /\ UNCHANGED visits
          ELSE /\ id \in VisitIds
               /\ visits' = Stored(visits, id, doc)
               /\ resp' = Reply("createVisit", user, body, 201,
                                [success |-> TRUE, data |-> [id |-> id, doc |-> doc]])
    /\ UNCHANGED <<salesVars, headerVars, itemVars, userVars>>

\* getVisits: GET /api/visits (admin middleware, then the rows of the user asked)
GetVisits(user, userId) ==
    /\ resp = NoResp
    /\ IF ~IsAdmin(user)
       THEN resp' = Reply("getVisits", user, [userId |-> userId], 403, Denied)
       ELSE LET found == {i \in DOMAIN visits : Has(userId) => visits[i].user = Val(userId)}
            IN resp' = Reply("getVisits", user, [userId |-> userId], 200,
                             [success |-> TRUE, total |-> Cardinality(found),
                              data |-> found])
    /\ UNCHANGED <<salesVars, headerVars, itemVars, visitVars, userVars>>

\* getVisitStats: GET /api/visits/stats (admin middleware, then the counts)
GetVisitStats(user) ==
    /\ resp = NoResp
    /\ IF ~IsAdmin(user)
       THEN resp' = Reply("getVisitStats", user, NoQuery, 403, Denied)
       ELSE resp' = Reply("getVisitStats", user, NoQuery, 200,
                          [success |-> TRUE,
                           data |-> [totalVisits |-> Cardinality(DOMAIN visits),
                                     uniqueUsers |->
                                         Cardinality({visits[i].user : i \in DOMAIN visits})]])
    /\ UNCHANGED <<salesVars, headerVars, itemVars, visitVars, userVars>>

\* SpecVisits: the three routes of /api/visits, from an empty collection
NextVisits ==
    \/ \E user \in Principals, body \in VisitBodies : CreateVisit(user, body)
    \/ \E user \in Principals, userId \in {Absent} \cup {<<u.id>> : u \in Principals} :
          GetVisits(user, userId)
    \/ \E user \in Principals : GetVisitStats(user)
    \/ Deliver

SpecVisits == InitItems /\ [][NextVisits]_vars

----------------------------------------------------------------------------
(* C15: Visit rows are append-only.                                         *)

\* C15: every step that changes the Visit collection is a POST /api/visits
\* answered 201 that adds exactly one row and leaves every existing row as it
\* was; no step updates or deletes a row
C15_VisitsAppendOnly ==
    [][ visits' # visits =>
           /\ resp'.endpoint = "createVisit" /\ resp'.status = 201
           /\ DOMAIN visits \subseteq DOMAIN visits'
           /\ Cardinality(DOMAIN visits') = Cardinality(DOMAIN visits) + 1
           /\ \A i \in DOMAIN visits : visits'[i] = visits[i] ]_vars

\* a second row has been added by POST /api/visits next to an existing one
C15_Witness ==
    /\ resp.endpoint = "createVisit" /\ resp.status = 201
    /\ Cardinality(DOMAIN visits) = 2

----------------------------------------------------------------------------
(* SpecStaff: createPharmacy and updatePharmacy with the staff of the       *)
(* pharmacy in the body (pharmacySchema: pharmacists, supervisor).          *)

MaxPharmacists == 2

\* req.body: a supervisor or none, and a list of pharmacists as the client sent it
StaffDocs ==
    [supervisor : SupervisorIds \cup {NoUser},
     pharmacists : UNION {[1..n -> {u.id : u \in OtherRoles}] : n \in 0..MaxPharmacists}]

NextStaff ==
    \/ \E branchCode \in BranchCodes, doc \in StaffDocs : CreatePharmacy(branchCode, doc)
    \/ \E branchCode \in BranchCodes, doc \in StaffDocs : UpdatePharmacy(branchCode, doc)
    \/ Deliver

SpecStaff == InitItems /\ [][NextStaff]_vars

\* C16: every stored pharmacy has at most one supervisor, and no user id occurs
\* twice in its list of pharmacists
C16_StaffInvariant ==
    \A b \in DOMAIN pharmacies :
        /\ pharmacies[b].supervisor \in SupervisorIds \cup {NoUser}
        /\ \A i, j \in DOMAIN pharmacies[b].pharmacists :
               i # j => pharmacies[b].pharmacists[i] # pharmacies[b].pharmacists[j]

----------------------------------------------------------------------------
(* C17: no stored DetailedSales row has a negative NetTotal, and a write    *)
(* that carries one is refused.                                             *)

\* the step answers the request with an error and stores nothing
RefusedWrite == resp'.status >= 400 /\ sales' = sales

\* C17: every stored row has NetTotal >= 0, and a create, an update or a bulk
\* create whose body carries a negative NetTotal is rejected and leaves the
\* collection unchanged
C17_NetTotalEnforced ==
    [][ /\ \A i \in DOMAIN sales' : sales'[i].NetTotal >= 0
        /\ \A user \in Principals, body \in AccessBodies :
              /\ body.NetTotal < 0
              /\ \/ CreateDetailedSale(user, body)
                 \/ \E id \in SaleIds : UpdateDetailedSale(user, id, body)
              => RefusedWrite
        /\ \A user \in Principals, items \in BulkArrays(AccessBodies) :
              /\ \E k \in DOMAIN items : items[k].NetTotal < 0
              /\ CreateBulkDetailedSales(user, items)
              => RefusedWrite ]_vars

----------------------------------------------------------------------------
(* Users, login and the protect middleware.                                 *)
(* A token or a header is a sequence of pieces: a token lists its runs of   *)
(* characters without '_' with "_" between them, a header lists its words.  *)

MaxUsers == 2

\* the _ids of the User documents, in the order they are given out, and two
\* strings no document carries: a well-formed ObjectId and an ill-formed one
UserIdNames == <<"u1", "u2", "u3", "u4">>
UnknownId == "u9"
BadId == "zz"

ValidObjectId(id) == id # BadId

\* Date.now() at the logins
Clock == {"1700", "1701"}

\* req.body of POST /api/users
UserBodies ==
    [username : {"ali", "Ali", "sara"}, email : {"a@x.io", "s@x.io"},
     password : {"secret1", "short"}, isActive : {Absent, <<FALSE>>}]

\* req.body of PUT /api/users/:id: one field of the document
UserUpdates ==
    {[f \in {"isActive"} |-> b] : b \in BOOLEAN}
    \cup {[f \in {"username"} |-> n] : n \in {"Ali", "sara"}}
    \cup {[f \in {"email"} |-> e] : e \in {"a@x.io", "s@x.io"}}
    \cup {[f \in {"password"} |-> w] : w \in {"secret2", "short"}}

\* userSchema: lowercase: true on username, default: true on isActive,
\* default: 'user' on role
UserDoc(body) ==
    [username |-> ToLowerCase(body.username), email |-> body.email,
     password |-> body.password,
     isActive |-> IF Has(body.isActive) THEN Val(body.isActive) ELSE TRUE,
     role |-> IF "role" \in DOMAIN body THEN body.role ELSE "user"]

\* userSchema: minlength 6 on password ("short" has five characters)
ValidUser(doc) == doc.password # "short"

\* the unique indexes on username and email, against the documents other than id
UserKeyTaken(db, doc, id) ==
    \E i \in DOMAIN db \ {id} :
        db[i].username = doc.username \/ db[i].email = doc.email

\* a response that carries the document as it is stored
Whole(doc) == doc

\* select('-password'), and delete userResponse.password after toObject()
Public(doc) == [f \in DOMAIN doc \ {"password"} |-> doc[f]]

\* createUser: POST /api/users
CreateUser(body) ==
    /\ resp = NoResp
    /\ LET doc == UserDoc(body)
           id == UserIdNames[userSeq + 1]
       IN IF ~ValidUser(doc)
          THEN /\ resp' = Reply("createUser", NoUser, [body |-> body], 400, Denied)
               /\ UNCHANGED <<users, userSeq>>
          ELSE IF UserKeyTaken(users, doc, BadId)
          THEN /\ resp' = Reply("createUser", NoUser, [body |-> body], 400, Denied)
               /\ UNCHANGED <<users, userSeq>>
          ELSE /\ userSeq < MaxUsers
               /\ users' = Stored(users, id, doc)
               /\ userSeq' = userSeq + 1
               /\ resp' = Reply("createUser", NoUser, [body |-> body], 201,
                                [success |-> TRUE, id |-> id, data |-> Public(doc)])
    /\ UNCHANGED tokens
    /\ UNCHANGED <<salesVars, headerVars, itemVars, visitVars>>

\* updateUser: PUT /api/users/:id
\* findByIdAndUpdate(id, body, {new: true, runValidators: true}) casts the id,
\* runs the validators on the body, and only then looks the document up
UpdateUser(id, body) ==
    /\ resp = NoResp
    /\ LET update == IF "username" \in DOMAIN body
                     THEN [f \in {"username"} |-> ToLowerCase(body["username"])]
                     ELSE body
           doc == [f \in DOMAIN users[id] |->
                      IF f \in DOMAIN update THEN update[f] ELSE users[id][f]]
       IN IF ~ValidObjectId(id)
          THEN /\ resp' = Reply("updateUser", NoUser, [id |-> id, body |-> body],
                                500, Denied)
               /\ UNCHANGED users
          ELSE IF "password" \in DOMAIN body /\ body["password"] = "short"
          THEN /\ resp' = Reply("updateUser", NoUser, [id |-> id, body |-> body],
                                400, Denied)
               /\ UNCHANGED users
          ELSE IF id \notin DOMAIN users
          THEN /\ resp' = Reply("updateUser", NoUser, [id |-> id, body |-> body],
                                404, Denied)
               /\ UNCHANGED users
          ELSE IF \E i \in DOMAIN users \ {id} :
                     \E f \in {"username", "email"} \cap DOMAIN update :
                         users[i][f] = update[f]
          THEN /\ resp' = Reply("updateUser", NoUser, [id |-> id, body |-> body],
                                400, Denied)
               /\ UNCHANGED users
          ELSE /\ users' = [users EXCEPT ![id] = doc]
               /\ resp' = Reply("updateUser", NoUser, [id |-> id, body |-> body],
                                200, [success |-> TRUE, id |-> id, data |-> Public(doc)])
    /\ UNCHANGED <<userSeq, tokens>>
    /\ UNCHANGED <<salesVars, headerVars, itemVars, visitVars>>

\* deleteUser: DELETE /api/users/:id
DeleteUser(id) ==
    /\ resp = NoResp
    /\ IF ~ValidObjectId(id)
       THEN /\ resp' = Reply("deleteUser", NoUser, [id |-> id], 500, Denied)
            /\ UNCHANGED users
       ELSE IF id \notin DOMAIN users
       THEN /\ resp' = Reply("deleteUser", NoUser, [id |-> id], 404, Denied)
            /\ UNCHANGED users
       ELSE /\ users' = [i \in DOMAIN users \ {id} |-> users[i]]
            /\ resp' = Reply("deleteUser", NoUser, [id |-> id], 200, [success |-> TRUE])
    /\ UNCHANGED <<userSeq, tokens>>
    /\ UNCHANGED <<salesVars, headerVars, itemVars, visitVars>>

\* req.query of GET /api/users: the isActive filter, given or not
UserQueries == [isActive : {Absent, <<"true">>, <<"false">>}]

\* getUsers: User.find(query).select('-password')
GetUsersReply(db, q) ==
    LET found == {i \in DOMAIN db :
                     Has(q.isActive) => db[i].isActive = (Val(q.isActive) = "true")}
    IN [status |-> 200,
        body |-> [success |-> TRUE, count |-> Cardinality(found),
                  data |-> {[id |-> i, doc |-> Public(db[i])] : i \in found}]]

\* getUsers: GET /api/users
GetUsers(q) ==
    /\ resp = NoResp
    /\ LET r == GetUsersReply(users, q)
       IN resp' = Reply("getUsers", NoUser, q, r.status, r.body)
    /\ UNCHANGED <<salesVars, headerVars, itemVars, visitVars, userVars>>

\* getUser: User.findById(id).select('-password')
GetUserReply(db, id) ==
    IF ~ValidObjectId(id) THEN [status |-> 500, body |-> Denied]
    ELSE IF id \notin DOMAIN db THEN [status |-> 404, body |-> Denied]
    ELSE [status |-> 200, body |-> [success |-> TRUE, data |-> Public(db[id])]]

\* getUser: GET /api/users/:id
GetUser(id) ==
    /\ resp = NoResp
    /\ LET r == GetUserReply(users, id)
       IN resp' = Reply("getUser", NoUser, [id |-> id], r.status, r.body)
    /\ UNCHANGED <<salesVars, headerVars, itemVars, visitVars, userVars>>

\* a token made of the user name in place of the _id
NameToken(user, id, now) == <<"token", "_", user.username, "_", now>>

\* `token_${user._id}_${Date.now()}`
MakeToken(user, id, now) == <<"token", "_", id, "_", now>>

RECURSIVE Split(_)
\* String.prototype.split('_') of a token
Split(s) ==
    IF s = <<>> THEN <<"">>
    ELSE LET rest == Split(Tail(s))
         IN IF s[1] = "_" THEN <<"">> \o rest
            ELSE <<s[1]>> \o Tail(rest)

\* req.body of POST /api/auth/login
LoginBodies ==
    [username : {Absent, <<"ali">>, <<"ALI">>, <<"sara">>},
     password : {Absent, <<"secret1">>, <<"secret2">>}]

\* login: POST /api/auth/login
Login(body, now) ==
    /\ resp = NoResp
    /\ LET found == {i \in DOMAIN users :
                        users[i].username = ToLowerCase(Val(body.username))}
       IN IF ~Has(body.username) \/ ~Has(body.password)
          THEN /\ resp' = Reply("login", NoUser, body, 400, Denied)
               /\ UNCHANGED tokens
          ELSE IF found = {}
          THEN /\ resp' = Reply("login", NoUser, body, 401, Denied)
               /\ UNCHANGED tokens
          ELSE \E id \in found :
                 IF ~users[id].isActive \/ users[id].password # Val(body.password)
                 THEN /\ resp' = Reply("login", NoUser, body, 401, Denied)
                      /\ UNCHANGED tokens
                 ELSE /\ resp' = Reply("login", NoUser, body, 200,
                                       [success |-> TRUE,
                                        data |-> [user |-> [username |-> users[id].username,
                                                            email |-> users[id].email],
                                                  token |-> MakeToken(users[id], id, now)]])
                      /\ tokens' = tokens \cup {[token |-> MakeToken(users[id], id, now),
                                                 user |-> id]}
    /\ UNCHANGED <<users, userSeq>>
    /\ UNCHANGED <<salesVars, headerVars, itemVars, visitVars>>

\* the Authorization headers of the requests: none, another scheme, no token,
\* a token of login, and tokens made up by the client
CraftedTokens ==
    {<<"token", "_", id, "_", "1700">> : id \in {"u1", "u2", UnknownId, BadId}}
    \cup {<<"token", "_", "u1">>, <<"tok", "_", "u1", "_", "1700">>, <<"token">>}

Headers(issued) ==
    {<<>>, <<"Bearer">>}
    \cup {<<scheme, t>> : scheme \in {"Bearer", "Basic"}, t \in issued \cup CraftedTokens}

\* protect: the status it answers, or 200 and req.user when it calls next()
Authenticate(authorization, db) ==
    LET token == IF Len(authorization) >= 1 /\ authorization[1] = "Bearer"
                    /\ Len(authorization) >= 2
                 THEN <<authorization[2]>> ELSE Absent
        tokenParts == Split(Val(token))
        userId == tokenParts[2]
    IN IF ~Has(token) THEN [status |-> 401, user |-> NoUser]
       ELSE IF Len(tokenParts) < 2 \/ tokenParts[1] # "token"
       THEN [status |-> 401, user |-> NoUser]
       ELSE IF ~ValidObjectId(userId) THEN [status |-> 500, user |-> NoUser]
       ELSE IF userId \notin DOMAIN db THEN [status |-> 401, user |-> NoUser]
       ELSE IF ~db[userId].isActive THEN [status |-> 401, user |-> NoUser]
       ELSE [status |-> 200, user |-> userId]

\* a request to a route behind protect: answered by protect, or handed to the
\* handler with req.user
ProtectedRequest(authorization) ==
    /\ resp = NoResp
    /\ LET r == Authenticate(authorization, users)
       IN resp' = Reply("protect", r.user, [authorization |-> authorization],
                        r.status, [success |-> r.status = 200])
    /\ UNCHANGED <<salesVars, headerVars, itemVars, visitVars, userVars>>

\* SpecAuth: the user routes, login and the protected requests, from no user
NextAuth ==
    \/ \E body \in UserBodies : CreateUser(body)
    \/ \E id \in {"u1", "u2", UnknownId, BadId}, body \in UserUpdates : UpdateUser(id, body)
    \/ \E id \in {"u1", "u2", UnknownId, BadId} : DeleteUser(id)
    \/ \E body \in LoginBodies, now \in Clock : Login(body, now)
    \/ \E authorization \in Headers({t.token : t \in tokens}) : ProtectedRequest(authorization)
    \/ Deliver

SpecAuth == InitItems /\ [][NextAuth]_vars

----------------------------------------------------------------------------
(* C18: what protect lets through, and what it answers otherwise.           *)

\* the header is 'Bearer token_<id>_<ts>' and id names an active user
GoodHeader(h) ==
    /\ Len(h) = 2 /\ h[1] = "Bearer"
    /\ Len(h[2]) = 5 /\ h[2][1] = "token" /\ h[2][2] = "_" /\ h[2][4] = "_"
    /\ h[2][3] \in DOMAIN users /\ users[h[2][3]].isActive

\* C18: behind protect the handler runs only for a header 'Bearer
\* token_<id>_<ts>' whose id names an existing active user; every other
\* request (no token, a malformed token, an id that is no valid identifier,
\* a deleted or deactivated user) is answered 401
C18_ProtectGuards ==
    resp.endpoint = "protect" =>
        /\ resp.status = 200 => GoodHeader(resp.query.authorization)
        /\ ~GoodHeader(resp.query.authorization) => resp.status = 401

----------------------------------------------------------------------------
(* C20: the round trip of login and protect.                                *)

\* the users the credentials of a login request name
Credentialed(body) ==
    {id \in DOMAIN users :
        /\ Has(body.username) /\ Has(body.password)
        /\ users[id].username = ToLowerCase(Val(body.username))
        /\ users[id].isActive
        /\ users[id].password = Val(body.password)}

----------------------------------------------------------------------------
(* C19: a create or an update that would duplicate a unique key is answered *)
(* 400 and stores nothing.                                                  *)

\* the step refuses a request of the endpoint with 400 and leaves db as it was
Refused400(before, after) == resp'.status = 400 /\ after = before

\* the value the request would give to a unique field of a User document
UserKeys(body) ==
    [f \in {"username", "email"} \cap DOMAIN body |-> ToLowerCase(body[f])]

\* C19: a create or update request whose unique key (Pharmacy branchCode, User
\* username or email, IncentiveItem SAP_Code) is the key of another stored
\* document is answered 400 and leaves the collection unchanged, and no two
\* stored documents share a key
C19_DuplicateKeyRefused ==
    [][ /\ (resp = NoResp /\ resp'.endpoint = "createPharmacy"
            /\ resp'.query.id \in DOMAIN pharmacies)
           => Refused400(pharmacies, pharmacies')
        /\ (resp = NoResp /\ resp'.endpoint = "createUser"
            /\ UserKeyTaken(users, UserDoc(resp'.query.body), BadId))
           => Refused400(users, users')
        /\ (resp = NoResp /\ resp'.endpoint = "updateUser"
            /\ resp'.query.id \in DOMAIN users
            /\ \E i \in DOMAIN users \ {resp'.query.id} :
                  \E f \in DOMAIN UserKeys(resp'.query.body) :
                      users[i][f] = UserKeys(resp'.query.body)[f])
           => Refused400(users, users')
        /\ (resp = NoResp
            /\ resp'.endpoint \in {"createIncentiveItem", "updateIncentiveItem"}
            /\ IsAdmin(resp'.caller)
            /\ "SAP_Code" \in DOMAIN resp'.query.body
            /\ KeyTaken(incentiveItems, "SAP_Code", resp'.query.body["SAP_Code"],
                        IF resp'.endpoint = "updateIncentiveItem"
                        THEN resp'.query.id ELSE 0)
            /\ (resp'.endpoint = "updateIncentiveItem"
                   => resp'.query.id \in DOMAIN incentiveItems))
           => Refused400(incentiveItems, incentiveItems')
        /\ \A i, j \in DOMAIN users' :
              i # j => /\ users'[i].username # users'[j].username
                       /\ users'[i].email # users'[j].email
        /\ \A i, j \in DOMAIN incentiveItems' :
              i # j => incentiveItems'[i]["SAP_Code"] # incentiveItems'[j]["SAP_Code"]
      ]_vars

----------------------------------------------------------------------------
(* C21: requests for an id that is not stored.                              *)

\* C21: an update or a delete of a user, a detailed sale or a pharmacy, or a
\* get of a detailed sale, whose id is not stored is answered 404 and changes
\* nothing, and an id that was deleted is never stored again
C21_NotFound ==
    [][ /\ (resp = NoResp /\ resp'.endpoint \in {"updateUser", "deleteUser"}
            /\ resp'.query.id \notin DOMAIN users)
           => resp'.status = 404 /\ users' = users
        /\ (resp = NoResp
            /\ resp'.endpoint \in {"getDetailedSale", "updateDetailedSale",
                                   "deleteDetailedSale"}
            /\ IsAdmin(resp'.caller) /\ resp'.query.id \notin DOMAIN sales)
           => resp'.status = 404 /\ sales' = sales
        /\ (resp = NoResp /\ resp'.endpoint \in {"updatePharmacy", "deletePharmacy"}
            /\ resp'.query.id \notin DOMAIN pharmacies)
           => resp'.status = 404 /\ pharmacies' = pharmacies
        /\ DOMAIN users' \ DOMAIN users \subseteq {UserIdNames[userSeq + 1]}
        /\ userSeq' >= userSeq
      ]_vars

----------------------------------------------------------------------------
(* The InsuranceItem and BabyJoy controllers: the reads behind the page     *)
(* list of the user, the writes behind the role check.  The two controllers *)
(* are the same code over two models; kind names the model.                 *)

Kinds == {"InsuranceItem", "BabyJoy"}

Catalogue(kind) == IF kind = "InsuranceItem" THEN insuranceItems ELSE babyJoyItems

KeyOf(kind) == IF kind = "InsuranceItem" THEN "SAP_Code" ELSE "Material"

PageOf(kind) == IF kind = "InsuranceItem" THEN "/insurance-items" ELSE "/baby-joy"

HandlerNames ==
    [InsuranceItem |-> [list |-> "getInsuranceItems", get |-> "getInsuranceItem",
                        create |-> "createInsuranceItem",
                        update |-> "updateInsuranceItem",
                        delete |-> "deleteInsuranceItem"],
     BabyJoy |-> [list |-> "getBabyJoyItems", filters |-> "getBabyJoyFilters",
                  get |-> "getBabyJoyItem", create |-> "createBabyJoyItem",
                  update |-> "updateBabyJoyItem", delete |-> "deleteBabyJoyItem"]]

\* the write of one catalogue
SetCatalogue(kind, db) ==
    IF kind = "InsuranceItem"
    THEN insuranceItems' = db /\ UNCHANGED babyJoyItems
    ELSE babyJoyItems' = db /\ UNCHANGED insuranceItems

\* the User documents of the database: the role, and a list of pages
StoredUsers ==
    [id : {"p1"}, role : {"admin", "user", "pharmacist"},
     allowedPages : SUBSET {"/insurance-items", "/baby-joy"}]

\* the paths of userSchema among the fields of the stored documents
UserSchemaPaths == {"id", "role"}

\* req.user: the Mongoose document of protect, which has the paths of the schema
ReqUser(stored) == [f \in DOMAIN stored \cap UserSchemaPaths |-> stored[f]]

\* (user.allowedPages || []).includes(page)
HasPageAccess(user, page) ==
    "allowedPages" \in DOMAIN user /\ page \in user["allowedPages"]

\* the reads open to the page: getInsuranceItems, getInsuranceItem,
\* getBabyJoyItems, getBabyJoyFilters
PageReads == {<<"InsuranceItem", "list">>, <<"InsuranceItem", "get">>,
              <<"BabyJoy", "list">>, <<"BabyJoy", "filters">>}

\* a read of a catalogue; id is the :id of a get and 0 otherwise
ReadItems(kind, op, stored, id) ==
    /\ resp = NoResp
    /\ LET user == ReqUser(stored)
           allowed == IF <<kind, op>> \in PageReads
                      THEN IsAdmin(user) \/ HasPageAccess(user, PageOf(kind))
                      ELSE IsAdmin(user)
           db == Catalogue(kind)
       IN resp' = Reply(HandlerNames[kind][op], stored, [id |-> id],
                        IF ~allowed THEN 403
                        ELSE IF op = "get" /\ id \notin DOMAIN db THEN 404 ELSE 200,
                        IF allowed /\ op # "get"
                        THEN [success |-> TRUE, count |-> Cardinality(DOMAIN db)]
                        ELSE [success |-> allowed /\ id \in DOMAIN db])
    /\ UNCHANGED <<salesVars, headerVars, itemVars, visitVars, userVars>>

\* createInsuranceItem, createBabyJoyItem
CreateItem(kind, stored, body) ==
    /\ resp = NoResp
    /\ LET db == Catalogue(kind)
       IN IF ~IsAdmin(ReqUser(stored))
          THEN /\ resp' = Reply(HandlerNames[kind]["create"], stored, NoQuery, 403, Denied)
               /\ SetCatalogue(kind, db)
          ELSE IF KeyTaken(db, KeyOf(kind), body[KeyOf(kind)], 0)
          THEN /\ resp' = Reply(HandlerNames[kind]["create"], stored, NoQuery, 400, Denied)
               /\ SetCatalogue(kind, db)
          ELSE /\ NextId(db) \in ItemIds
               /\ SetCatalogue(kind, Stored(db, NextId(db), body))
               /\ resp' = Reply(HandlerNames[kind]["create"], stored, NoQuery, 201,
                                [success |-> TRUE, id |-> NextId(db)])
    /\ UNCHANGED incentiveItems
    /\ UNCHANGED <<salesVars, headerVars, visitVars, userVars>>

\* updateInsuranceItem, updateBabyJoyItem
UpdateItem(kind, stored, id, body) ==
    /\ resp = NoResp
    /\ LET db == Catalogue(kind)
       IN IF ~IsAdmin(ReqUser(stored))
          THEN /\ resp' = Reply(HandlerNames[kind]["update"], stored, [id |-> id],
                                403, Denied)
               /\ SetCatalogue(kind, db)
          ELSE IF id \notin DOMAIN db
          THEN /\ resp' = Reply(HandlerNames[kind]["update"], stored, [id |-> id],
                                404, Denied)
               /\ SetCatalogue(kind, db)
          ELSE IF KeyTaken(db, KeyOf(kind), body[KeyOf(kind)], id)
          THEN /\ resp' = Reply(HandlerNames[kind]["update"], stored, [id |-> id],
                                400, Denied)
               /\ SetCatalogue(kind, db)
          ELSE /\ SetCatalogue(kind, [db EXCEPT ![id] = body])
               /\ resp' = Reply(HandlerNames[kind]["update"], stored, [id |-> id],
                                200, [success |-> TRUE, id |-> id])
    /\ UNCHANGED incentiveItems
    /\ UNCHANGED <<salesVars, headerVars, visitVars, userVars>>

\* deleteInsuranceItem, deleteBabyJoyItem
DeleteItem(kind, stored, id) ==
    /\ resp = NoResp
    /\ LET db == Catalogue(kind)
       IN IF ~IsAdmin(ReqUser(stored))
          THEN /\ resp' = Reply(HandlerNames[kind]["delete"], stored, [id |-> id],
                                403, Denied)
               /\ SetCatalogue(kind, db)
          ELSE IF id \notin DOMAIN db
          THEN /\ resp' = Reply(HandlerNames[kind]["delete"], stored, [id |-> id],
                                404, Denied)
               /\ SetCatalogue(kind, db)
          ELSE /\ SetCatalogue(kind, [i \in DOMAIN db \ {id} |-> db[i]])
               /\ resp' = Reply(HandlerNames[kind]["delete"], stored, [id |-> id],
                                200, [success |-> TRUE])
    /\ UNCHANGED incentiveItems
    /\ UNCHANGED <<salesVars, headerVars, visitVars, userVars>>

\* SpecPages: the requests of the two controllers by every stored user
NextPages ==
    \/ \E kind \in Kinds, stored \in StoredUsers, op \in {"list", "filters", "get"},
          id \in ItemIds \cup {0} :
          /\ op \in DOMAIN HandlerNames[kind]
          /\ (id # 0) <=> (op = "get")
          /\ ReadItems(kind, op, stored, id)
    \/ \E kind \in Kinds, stored \in StoredUsers :
          \E body \in KeyOnly(KeyOf(kind)) : CreateItem(kind, stored, body)
    \/ \E kind \in Kinds, stored \in StoredUsers, id \in ItemIds :
          \E body \in KeyOnly(KeyOf(kind)) : UpdateItem(kind, stored, id, body)
    \/ \E kind \in Kinds, stored \in StoredUsers, id \in ItemIds :
          DeleteItem(kind, stored, id)
    \/ \E stored \in StoredUsers, items \in Batches(KeyOnly("SAP_Code")) :
          BulkCreateInsuranceItems(ReqUser(stored), items)
    \/ \E stored \in StoredUsers, items \in Batches(KeyOnly("Material")) :
          BulkCreateBabyJoyItems(ReqUser(stored), items)
    \/ Deliver

SpecPages == InitItems /\ [][NextPages]_vars

----------------------------------------------------------------------------
(* C22: the page list of a user opens the reads and never the writes.       *)

PageReadNames ==
    [InsuranceItem |-> {"getInsuranceItems", "getInsuranceItem"},
     BabyJoy |-> {"getBabyJoyItems", "getBabyJoyFilters"}]

WriteNames(kind) ==
    {HandlerNames[kind][op] : op \in {"create", "update", "delete"}}
    \cup {IF kind = "InsuranceItem" THEN "bulkCreateInsuranceItems"
          ELSE "bulkCreateBabyJoyItems"}

\* C22: on the reads of a page, a non-admin user whose allowedPages holds the
\* page is served and one without it is answered 403; on the writes every
\* non-admin is answered 403
C22_PageAcl ==
    \A kind \in Kinds :
        /\ (resp.endpoint \in PageReadNames[kind] /\ resp.caller.role # "admin")
           => IF PageOf(kind) \in resp.caller.allowedPages
              THEN resp.status \in {200, 404}
              ELSE resp.status = 403
        /\ (resp.endpoint \in WriteNames(kind) /\ resp.caller.role # "admin")
           => resp.status = 403

----------------------------------------------------------------------------
(* The routes of /api/visits as Express runs them: protect, then admin on   *)
(* the two GET routes, then the handler.                                    *)

\* req.body of POST /api/users with a role
RoleBodies ==
    {[username |-> n, email |-> IF n = "ali" THEN "a@x.io" ELSE "s@x.io",
      password |-> "secret1", isActive |-> a, role |-> r] :
        n \in {"ali", "sara"}, a \in {Absent, <<FALSE>>}, r \in {"admin", "user"}}

\* the caller of a request that protect did not let through
Anonymous == [id |-> NoUser, role |-> NoUser]

VisitRoutes == {"createVisit", "getVisits", "getVisitStats"}

\* a request to a route of visitRoutes.js: router.use(protect), then the
\* middleware and the handler of the route
VisitRequest(route, authorization, body, userId) ==
    LET r == Authenticate(authorization, users)
        user == [id |-> r.user, role |-> users[r.user].role]
    IN IF r.status # 200
       THEN /\ resp = NoResp
            /\ resp' = Reply(route, Anonymous, [authorization |-> authorization],
                             r.status, Denied)
            /\ UNCHANGED <<salesVars, headerVars, itemVars, visitVars, userVars>>
       ELSE CASE route = "createVisit" -> CreateVisit(user, body)
              [] route = "getVisits" -> GetVisits(user, userId)
              [] route = "getVisitStats" -> GetVisitStats(user)

\* SpecRoutes: users of both roles are created, and every header is sent to
\* every route
NextRoutes ==
    \/ \E body \in RoleBodies : CreateUser(body)
    \/ \E route \in VisitRoutes, authorization \in Headers({}) :
          \E body \in IF route = "createVisit" THEN {b \in VisitBodies : ~Has(b.user)}
                       ELSE {[path |-> Absent, method |-> Absent, user |-> Absent]},
             userId \in IF route = "getVisits" THEN {Absent, <<"u1">>} ELSE {Absent} :
             VisitRequest(route, authorization, body, userId)
    \/ Deliver

SpecRoutes == InitItems /\ [][NextRoutes]_vars

----------------------------------------------------------------------------
(* C23: the two GET routes of /api/visits are for admins only.              *)

\* C23: on GET /api/visits and GET /api/visits/stats an unauthenticated
\* request is answered 401 and an authenticated non-admin 403, in both cases
\* with nothing of the Visit collection in the response; POST /api/visits is
\* refused to no authenticated user for who they are
C23_VisitsAdminOnly ==
    /\ (resp.endpoint \in {"getVisits", "getVisitStats"} /\ resp.caller = Anonymous)
       => resp.status = 401 /\ resp.body = Denied
    /\ (resp.endpoint \in {"getVisits", "getVisitStats"} /\ resp.caller # Anonymous
        /\ resp.caller.role # "admin")
       => resp.status = 403 /\ resp.body = Denied
    /\ (resp.endpoint = "createVisit" /\ resp.caller # Anonymous)
       => resp.status \notin {401, 403}

----------------------------------------------------------------------------
(* updateDetailedSale and deleteDetailedSale call the database twice:       *)
(* findById, then findByIdAndUpdate or findByIdAndDelete.  The requests of  *)
(* other clients run between the two calls.                                 *)

MaxCalls == 2

CallSlots == 1..MaxCalls

\* a call is parked in the lowest free slot
FreeSlot == CHOOSE n \in CallSlots \ DOMAIN calls : \A m \in CallSlots \ DOMAIN calls : n <= m

Parked(call) == [n \in DOMAIN calls \cup {FreeSlot} |-> IF n = FreeSlot THEN call ELSE calls[n]]

Resumed(slot) == [n \in DOMAIN calls \ {slot} |-> calls[n]]

\* role check and findById, common to the two handlers
FindDetailedSale(handler, user, id, body) ==
    /\ resp = NoResp
    /\ IF ~IsAdmin(user)
       THEN /\ resp' = Reply(handler, user, [id |-> id], 403, Denied)
            /\ UNCHANGED calls
       ELSE IF id \notin DOMAIN sales
       THEN /\ resp' = Reply(handler, user, [id |-> id], 404, Denied)
            /\ UNCHANGED calls
       ELSE /\ CallSlots \ DOMAIN calls # {}
            /\ calls' = Parked([handler |-> handler, caller |-> user, id |-> id,
                                body |-> body])
            /\ UNCHANGED resp
    /\ UNCHANGED <<pharmacies, sales, monthCall>>
    /\ UNCHANGED <<headerVars, itemVars, visitVars, userVars, contestVars>>

\* findByIdAndUpdate(id, body, {new: true, runValidators: true}) and the
\* response: data is the document the call returns, null when none has the id
UpdateDetailedSaleFinish(slot) ==
    /\ resp = NoResp
    /\ slot \in DOMAIN calls
    /\ calls[slot].handler = "updateDetailedSale"
    /\ LET call == calls[slot]
       IN IF ~ValidSale(call.body)
          THEN /\ resp' = Reply(call.handler, call.caller, [id |-> call.id], 400, Denied)
               /\ UNCHANGED sales
          ELSE IF call.id \in DOMAIN sales
          THEN /\ sales' = [sales EXCEPT ![call.id] = call.body]
               /\ resp' = Reply(call.handler, call.caller, [id |-> call.id], 200,
                                [success |-> TRUE, data |-> <<call.body>>])
          ELSE /\ resp' = Reply(call.handler, call.caller, [id |-> call.id], 200,
                                [success |-> TRUE, data |-> Absent])
               /\ UNCHANGED sales
    /\ calls' = Resumed(slot)
    /\ UNCHANGED <<pharmacies, monthCall>>
    /\ UNCHANGED <<headerVars, itemVars, visitVars, userVars, contestVars>>

\* findByIdAndDelete(id) and the response, which does not read what it returns
DeleteDetailedSaleFinish(slot) ==
    /\ resp = NoResp
    /\ slot \in DOMAIN calls
    /\ calls[slot].handler = "deleteDetailedSale"
    /\ LET call == calls[slot]
       IN /\ sales' = [i \in DOMAIN sales \ {call.id} |-> sales[i]]
          /\ resp' = Reply(call.handler, call.caller, [id |-> call.id], 200,
                           [success |-> TRUE])
    /\ calls' = Resumed(slot)
    /\ UNCHANGED <<pharmacies, monthCall>>
    /\ UNCHANGED <<headerVars, itemVars, visitVars, userVars, contestVars>>

\* SpecRace: updates and deletes of the stored rows, their database calls
\* interleaved
NextRace ==
    \/ \E user \in Admins \cup OtherRoles, id \in SaleIds, body \in AccessBodies :
          FindDetailedSale("updateDetailedSale", user, id, body)
    \/ \E user \in Admins \cup OtherRoles, id \in SaleIds, body \in {CHOOSE b \in AccessBodies : TRUE} :
          FindDetailedSale("deleteDetailedSale", user, id, body)
    \/ \E slot \in CallSlots : UpdateDetailedSaleFinish(slot)
    \/ \E slot \in CallSlots : DeleteDetailedSaleFinish(slot)
    \/ Deliver

SpecRace == Init /\ [][NextRace]_vars

----------------------------------------------------------------------------
(* C24: check-then-act on a detailed sale.                                  *)

\* C24: under every interleaving, an update answered 200 carries the updated
\* row, a delete answered 200 has removed the row (so of several deletes of
\* one id at most one is answered 200), and an administrator's request for a
\* row that is gone is answered 404
C24_CheckThenAct ==
    [][ /\ (resp = NoResp /\ resp'.endpoint = "updateDetailedSale" /\ resp'.status = 200)
           => Has(resp'.body.data)
        /\ (resp = NoResp /\ resp'.endpoint = "deleteDetailedSale" /\ resp'.status = 200)
           => resp'.query.id \in DOMAIN sales /\ resp'.query.id \notin DOMAIN sales'
        /\ (resp = NoResp /\ resp'.endpoint \in {"updateDetailedSale", "deleteDetailedSale"}
            /\ IsAdmin(resp'.caller) /\ resp'.query.id \notin DOMAIN sales)
           => resp'.status = 404 ]_vars

----------------------------------------------------------------------------
(* updateIncentiveItem calls the database twice when the body gives a Price *)
(* or an IncentivePercentage: findById to read the other operand, then      *)
(* findByIdAndUpdate with the product it computed.                          *)

\* req.body after the recalculation, from the document that findById returned
Recalculated(body, db, id) ==
    LET existing == db[id]
        price == IF "Price" \in DOMAIN body THEN <<body["Price"]>>
                 ELSE IF "Price" \in DOMAIN existing THEN <<existing["Price"]>>
                 ELSE Absent
        percentage ==
            IF "IncentivePercentage" \in DOMAIN body
            THEN <<body["IncentivePercentage"]>>
            ELSE IF "IncentivePercentage" \in DOMAIN existing
            THEN <<existing["IncentivePercentage"]>>
            ELSE Absent
    IN IF /\ Truthy(body, "Price") \/ Truthy(body, "IncentivePercentage")
          /\ id \in DOMAIN db
          /\ Has(price) /\ Val(price) # 0
          /\ Has(percentage) /\ Val(percentage) # 0
       THEN Put(body, "incentive value", Val(price) * Val(percentage))
       ELSE body

\* role check, findById and the recalculation
UpdateIncentiveItemStart(user, id, body) ==
    /\ resp = NoResp
    /\ IF ~IsAdmin(user)
       THEN /\ resp' = Reply("updateIncentiveItem", user, NoQuery, 403, Denied)
            /\ UNCHANGED calls
       ELSE /\ CallSlots \ DOMAIN calls # {}
            /\ calls' = Parked([handler |-> "updateIncentiveItem", caller |-> user,
                                id |-> id, body |-> Recalculated(body, incentiveItems, id)])
            /\ UNCHANGED resp
    /\ UNCHANGED <<pharmacies, sales, monthCall>>
    /\ UNCHANGED <<headerVars, itemVars, visitVars, userVars, contestVars>>

\* findByIdAndUpdate(id, body, {new: true, runValidators: true}) and the response
UpdateIncentiveItemFinish(slot) ==
    /\ resp = NoResp
    /\ slot \in DOMAIN calls
    /\ calls[slot].handler = "updateIncentiveItem"
    /\ LET call == calls[slot]
           existing == incentiveItems[call.id]
           doc == [f \in DOMAIN existing \cup DOMAIN call.body |->
                      IF f \in DOMAIN call.body THEN call.body[f] ELSE existing[f]]
       IN IF call.id \notin DOMAIN incentiveItems
          THEN /\ resp' = Reply(call.handler, call.caller, [id |-> call.id], 404, Denied)
               /\ UNCHANGED incentiveItems
          ELSE IF "SAP_Code" \in DOMAIN call.body
                  /\ KeyTaken(incentiveItems, "SAP_Code", call.body["SAP_Code"], call.id)
          THEN /\ resp' = Reply(call.handler, call.caller, [id |-> call.id], 400, Denied)
               /\ UNCHANGED incentiveItems
          ELSE /\ incentiveItems' = [incentiveItems EXCEPT ![call.id] = doc]
               /\ resp' = Reply(call.handler, call.caller, [id |-> call.id], 200,
                                [success |-> TRUE, data |-> [id |-> call.id, doc |-> doc]])
    /\ calls' = Resumed(slot)
    /\ UNCHANGED <<insuranceItems, babyJoyItems>>
    /\ UNCHANGED <<pharmacies, sales, monthCall>>
    /\ UNCHANGED <<headerVars, visitVars, userVars, contestVars>>

\* the bodies of the racing requests: items with a price, with or without a
\* percentage, and updates of one operand, none of them zero
PricedItems ==
    {b \in ItemBodies : /\ {"SAP_Code", "Price"} \subseteq DOMAIN b
                        /\ "incentive value" \notin DOMAIN b
                        /\ \A f \in DOMAIN b : b[f] # 0}

OperandUpdates ==
    {[f \in {"Price"} |-> v] : v \in {2, 3}}
    \cup {[f \in {"IncentivePercentage"} |-> 1]}
    \cup {[f \in {"SAP_Code"} |-> c] : c \in SapCodes}

\* SpecItemRace: items are created, and updated by calls whose database calls
\* interleave; a client knows the _id of a stored item, and one that is never
\* given out
NextItemRace ==
    \/ \E user \in Admins, body \in PricedItems : CreateIncentiveItem(user, body)
    \/ \E user \in ItemCallers, id \in DOMAIN incentiveItems \cup {MaxItems + 1},
          body \in OperandUpdates : UpdateIncentiveItemStart(user, id, body)
    \/ \E slot \in CallSlots : UpdateIncentiveItemFinish(slot)
    \/ Deliver

SpecItemRace == InitItems /\ [][NextItemRace]_vars

----------------------------------------------------------------------------
(* C25: the derived incentive value under concurrent updates.               *)

\* C25: when no update is between its two database calls, every stored item
\* with a Price and an IncentivePercentage has an incentive value equal to
\* their product
C25_DerivedValue ==
    calls = <<>> =>
        \A i \in DOMAIN incentiveItems :
            {"Price", "IncentivePercentage"} \subseteq DOMAIN incentiveItems[i]
            => /\ "incentive value" \in DOMAIN incentiveItems[i]
               /\ incentiveItems[i]["incentive value"] =
                      incentiveItems[i]["Price"] * incentiveItems[i]["IncentivePercentage"]

----------------------------------------------------------------------------
(* C26: the two aggregations of getSalesByMonth under concurrent writes.    *)

\* C26: every month of a sales-by-month response has daysWithInvoices >= 1,
\* and the response is the one a single reading of some collection gives, so
\* that daysWithInvoices counts the distinct invoice days of the rows summed
\* into totalSales
C26_DaysMatchTotals ==
    Answered("getSalesByMonth") =>
        /\ \A i \in 1..Len(resp.body.statistics) :
              resp.body.statistics[i].daysWithInvoices >= 1
        /\ \E db \in Collections(MonthRows) :
              \E r \in GetSalesByMonthResponses(resp.caller, resp.query, db) :
                  r.body = resp.body

----------------------------------------------------------------------------
(* The Contest controller, and the delete of the IncentiveItem controller.  *)

\* req.body of the contest requests: Company given or not
ContestBodies == [Company : {Absent, <<"acme">>}, SAP_Code : {101}]

\* contestSchema: Company is required
ValidContest(doc) == Has(doc.Company)

\* createContest: POST /api/contests
CreateContest(user, body) ==
    /\ resp = NoResp
    /\ IF ~IsAdmin(user)
       THEN /\ resp' = Reply("createContest", user, NoQuery, 403, Denied)
            /\ UNCHANGED contests
       ELSE IF ~ValidContest(body)
       THEN /\ resp' = Reply("createContest", user, NoQuery, 400, Denied)
            /\ UNCHANGED contests
       ELSE /\ NextId(contests) \in ItemIds
            /\ contests' = Stored(contests, NextId(contests), body)
            /\ resp' = Reply("createContest", user, NoQuery, 201,
                             [success |-> TRUE, id |-> NextId(contests)])
    /\ UNCHANGED <<pharmacies, sales, monthCall, calls>>
    /\ UNCHANGED <<headerVars, itemVars, visitVars, userVars>>

\* updateContest: PUT /api/contests/:id
UpdateContest(user, id, body) ==
    /\ resp = NoResp
    /\ IF ~IsAdmin(user)
       THEN /\ resp' = Reply("updateContest", user, [id |-> id], 403, Denied)
            /\ UNCHANGED contests
       ELSE IF id \notin DOMAIN contests
       THEN /\ resp' = Reply("updateContest", user, [id |-> id], 404, Denied)
            /\ UNCHANGED contests
       ELSE /\ contests' = [contests EXCEPT ![id] =
                               [@ EXCEPT !.Company = IF Has(body.Company)
                                                     THEN body.Company ELSE @]]
            /\ resp' = Reply("updateContest", user, [id |-> id], 200,
                             [success |-> TRUE, id |-> id])
    /\ UNCHANGED <<pharmacies, sales, monthCall, calls>>
    /\ UNCHANGED <<headerVars, itemVars, visitVars, userVars>>

\* deleteContest: DELETE /api/contests/:id
DeleteContest(user, id) ==
    /\ resp = NoResp
    /\ IF ~IsAdmin(user)
       THEN /\ resp' = Reply("deleteContest", user, [id |-> id], 403, Denied)
            /\ UNCHANGED contests
       ELSE IF id \notin DOMAIN contests
       THEN /\ resp' = Reply("deleteContest", user, [id |-> id], 404, Denied)
            /\ UNCHANGED contests
       ELSE /\ contests' = [i \in DOMAIN contests \ {id} |-> contests[i]]
            /\ resp' = Reply("deleteContest", user, [id |-> id], 200, [success |-> TRUE])
    /\ UNCHANGED <<pharmacies, sales, monthCall, calls>>
    /\ UNCHANGED <<headerVars, itemVars, visitVars, userVars>>

RECURSIVE StoreAll(_, _)
\* insertMany(items, {ordered: false}) on a collection without a unique index
StoreAll(db, docs) ==
    IF docs = <<>> THEN db
    ELSE StoreAll(Stored(db, NextId(db), docs[1]), Tail(docs))

\* bulkCreateContests: POST /api/contests/bulk
BulkCreateContests(user, items) ==
    /\ resp = NoResp
    /\ IF ~IsAdmin(user)
       THEN /\ resp' = Reply("bulkCreateContests", user, NoQuery, 403, Denied)
            /\ UNCHANGED contests
       ELSE IF Len(items) = 0
       THEN /\ resp' = Reply("bulkCreateContests", user, NoQuery, 400, Denied)
            /\ UNCHANGED contests
       ELSE LET valid == SelectSeq(items, ValidContest)
            IN /\ DOMAIN StoreAll(contests, valid) \subseteq ItemIds
               /\ contests' = StoreAll(contests, valid)
               /\ resp' = Reply("bulkCreateContests", user, NoQuery, 201,
                                [success |-> TRUE, count |-> Len(valid)])
    /\ UNCHANGED <<pharmacies, sales, monthCall, calls>>
    /\ UNCHANGED <<headerVars, itemVars, visitVars, userVars>>

\* deleteIncentiveItem: DELETE /api/incentive-items/:id
DeleteIncentiveItem(user, id) ==
    /\ resp = NoResp
    /\ IF ~IsAdmin(user)
       THEN /\ resp' = Reply("deleteIncentiveItem", user, [id |-> id], 403, Denied)
            /\ UNCHANGED incentiveItems
       ELSE IF id \notin DOMAIN incentiveItems
       THEN /\ resp' = Reply("deleteIncentiveItem", user, [id |-> id], 404, Denied)
            /\ UNCHANGED incentiveItems
       ELSE /\ incentiveItems' = [i \in DOMAIN incentiveItems \ {id} |-> incentiveItems[i]]
            /\ resp' = Reply("deleteIncentiveItem", user, [id |-> id], 200,
                             [success |-> TRUE])
    /\ UNCHANGED <<insuranceItems, babyJoyItems>>
    /\ UNCHANGED <<salesVars, headerVars, visitVars, userVars>>

----------------------------------------------------------------------------
(* The bulk requests by their bodies: the array may be missing.             *)

BulkHandlers ==
    {"createBulkDetailedSales", "bulkCreateIncentiveItems", "bulkCreateInsuranceItems",
     "bulkCreateBabyJoyItems", "bulkCreateContests"}

\* the documents a request gives to each bulk handler
BulkSamples(handler) ==
    CASE handler = "createBulkDetailedSales" ->
             {r \in AccessBodies : r.BranchCode = 1 /\ r.InvoiceType = "Normal"}
      [] handler = "bulkCreateIncentiveItems" ->
             {b \in BatchItems : DOMAIN b = {"SAP_Code", "Price"} /\ b["Price"] = 2}
      [] handler = "bulkCreateInsuranceItems" -> KeyOnly("SAP_Code")
      [] handler = "bulkCreateBabyJoyItems" -> KeyOnly("Material")
      [] handler = "bulkCreateContests" -> ContestBodies

\* req.body of a bulk request: no array, or an array of up to MaxBatch items
BulkBodies(handler) ==
    [items : {Absent} \cup {<<a>> : a \in Batches(BulkSamples(handler))}]

\* !Array.isArray(items) || items.length === 0: a body without the array takes
\* the branch of the empty array
ItemsOf(body) == IF Has(body.items) THEN Val(body.items) ELSE <<>>

BulkRequest(handler, user, body) ==
    CASE handler = "createBulkDetailedSales" ->
             CreateBulkDetailedSales(user, ItemsOf(body))
      [] handler = "bulkCreateIncentiveItems" ->
             BulkCreateIncentiveItems(user, ItemsOf(body))
      [] handler = "bulkCreateInsuranceItems" ->
             BulkCreateInsuranceItems(user, ItemsOf(body))
      [] handler = "bulkCreateBabyJoyItems" ->
             BulkCreateBabyJoyItems(user, ItemsOf(body))
      [] handler = "bulkCreateContests" ->
             BulkCreateContests(user, ItemsOf(body))

----------------------------------------------------------------------------
(* SpecWrites: every write handler of the five controllers, asked by an     *)
(* administrator, a supervisor and a user.  The five collections together   *)
(* hold up to MaxDocs documents.                                            *)

MaxDocs == 2

TotalDocs ==
    Cardinality(DOMAIN sales) + Cardinality(DOMAIN incentiveItems)
    + Cardinality(DOMAIN insuranceItems) + Cardinality(DOMAIN babyJoyItems)
    + Cardinality(DOMAIN contests)

WriteCallers == {u \in Principals : u.id \in {"admin1", "sup1", "user1"}}

SaleSamples == {r \in AccessBodies : r.BranchCode = 1 /\ r.InvoiceType = "Normal"}

ItemSamples == {b \in ItemBodies : DOMAIN b = {"SAP_Code", "Price"} /\ b["Price"] = 2}

NextWrites ==
    \/ \E user \in WriteCallers :
          \/ \E body \in SaleSamples : TotalDocs < MaxDocs /\ CreateDetailedSale(user, body)
          \/ \E id \in SaleIds, body \in SaleSamples : UpdateDetailedSale(user, id, body)
          \/ \E id \in SaleIds : DeleteDetailedSale(user, id)
    \/ \E user \in WriteCallers :
          \/ \E body \in ItemSamples : TotalDocs < MaxDocs /\ CreateIncentiveItem(user, body)
          \/ \E id \in ItemIds, body \in ItemSamples : UpdateIncentiveItem(user, id, body)
          \/ \E id \in ItemIds : DeleteIncentiveItem(user, id)
    \/ \E user \in WriteCallers, kind \in Kinds :
          \/ \E body \in KeyOnly(KeyOf(kind)) :
                TotalDocs < MaxDocs /\ CreateItem(kind, user, body)
          \/ \E id \in ItemIds : \E body \in KeyOnly(KeyOf(kind)) :
                UpdateItem(kind, user, id, body)
          \/ \E id \in ItemIds : DeleteItem(kind, user, id)
    \/ \E user \in WriteCallers :
          \/ \E body \in ContestBodies : TotalDocs < MaxDocs /\ CreateContest(user, body)
          \/ \E id \in ItemIds, body \in ContestBodies : UpdateContest(user, id, body)
          \/ \E id \in ItemIds : DeleteContest(user, id)
    \/ \E user \in WriteCallers, handler \in BulkHandlers :
          \E body \in BulkBodies(handler) :
              /\ TotalDocs + Len(ItemsOf(body)) <= MaxDocs
              /\ BulkRequest(handler, user, body)
    \/ Deliver

SpecWrites == InitItems /\ [][NextWrites]_vars

----------------------------------------------------------------------------
(* C27: only administrators change the five collections.                    *)

WriteHandlers ==
    {"createDetailedSale", "updateDetailedSale", "deleteDetailedSale",
     "createIncentiveItem", "updateIncentiveItem", "deleteIncentiveItem",
     "createInsuranceItem", "updateInsuranceItem", "deleteInsuranceItem",
     "createBabyJoyItem", "updateBabyJoyItem", "deleteBabyJoyItem",
     "createContest", "updateContest", "deleteContest"} \cup BulkHandlers

adminCollections == <<sales, incentiveItems, insuranceItems, babyJoyItems, contests>>

\* C27: a create, bulk-create, update or delete asked by a caller who is no
\* administrator is answered 403 and leaves the five collections as they
\* were, so that every step that changes one of them answers an
\* administrator; and a bulk request of an administrator with no array or an
\* empty one is answered 400 and stores nothing
C27_AdminOnlyWrites ==
    [][ /\ (resp = NoResp /\ resp'.endpoint \in WriteHandlers
            /\ resp'.caller.role # "admin")
           => resp'.status = 403 /\ adminCollections' = adminCollections
        /\ adminCollections' # adminCollections
           => resp'.endpoint \in WriteHandlers /\ resp'.caller.role = "admin"
        /\ \A handler \in BulkHandlers, user \in WriteCallers :
              \A body \in {[items |-> Absent], [items |-> <<<<>>>>]} :
                 (user.role = "admin" /\ BulkRequest(handler, user, body))
                 => resp'.status = 400 /\ adminCollections' = adminCollections ]_vars

\* a delete asked by a caller who is no administrator, refused with documents
\* stored in two of the collections
C27_Witness ==
    /\ resp.endpoint = "deleteContest"
    /\ resp.caller.role # "admin"
    /\ resp.status = 403
    /\ resp.query.id \in DOMAIN contests
    /\ sales # <<>>

----------------------------------------------------------------------------
(* SpecUsers: the requests of SpecAuth and the two reads of the users.      *)

NextUsers ==
    \/ NextAuth
    \/ \E q \in UserQueries : GetUsers(q)
    \/ \E id \in {"u1", "u2", UnknownId, BadId} : GetUser(id)

SpecUsers == InitItems /\ [][NextUsers]_vars

----------------------------------------------------------------------------
(* C28: no response discloses a stored password.                            *)

UserEndpoints == {"getUsers", "getUser", "createUser", "updateUser", "deleteUser", "protect"}

\* the passwords a stored document can carry
Passwords == {"secret1", "secret2"}

\* the collections that differ from db in the passwords only
PasswordVariants(db) ==
    {[i \in DOMAIN db |-> [db[i] EXCEPT !.password = pw[i]]] : pw \in [DOMAIN db -> Passwords]}

\* the status and body a request other than a login is answered with, as a
\* function of the User collection it is served from
UserAnswer(db, seq, endpoint, query) ==
    CASE endpoint = "getUsers" -> GetUsersReply(db, query)
      [] endpoint = "getUser" -> GetUserReply(db, query.id)
      [] endpoint = "createUser" ->
             IF ~ValidUser(UserDoc(query.body)) \/ UserKeyTaken(db, UserDoc(query.body), BadId)
             THEN [status |-> 400, body |-> Denied]
             ELSE [status |-> 201,
                   body |-> [success |-> TRUE, id |-> UserIdNames[seq + 1],
                             data |-> Public(UserDoc(query.body))]]
      [] endpoint = "updateUser" ->
             LET update == IF "username" \in DOMAIN query.body
                           THEN [f \in {"username"} |-> ToLowerCase(query.body["username"])]
                           ELSE query.body
                 doc == [f \in DOMAIN db[query.id] |->
                            IF f \in DOMAIN update THEN update[f] ELSE db[query.id][f]]
             IN IF ~ValidObjectId(query.id) THEN [status |-> 500, body |-> Denied]
                ELSE IF "password" \in DOMAIN update /\ update["password"] = "short"
                THEN [status |-> 400, body |-> Denied]
                ELSE IF query.id \notin DOMAIN db THEN [status |-> 404, body |-> Denied]
                ELSE IF \E i \in DOMAIN db \ {query.id} :
                           \E f \in {"username", "email"} \cap DOMAIN update :
                               db[i][f] = update[f]
                THEN [status |-> 400, body |-> Denied]
                ELSE [status |-> 200,
                      body |-> [success |-> TRUE, id |-> query.id, data |-> Public(doc)]]
      [] endpoint = "deleteUser" ->
             IF ~ValidObjectId(query.id) THEN [status |-> 500, body |-> Denied]
             ELSE IF query.id \notin DOMAIN db THEN [status |-> 404, body |-> Denied]
             ELSE [status |-> 200, body |-> [success |-> TRUE]]
      [] endpoint = "protect" ->
             LET r == Authenticate(query.authorization, db)
             IN [status |-> r.status, body |-> [success |-> r.status = 200]]

\* the documents a response carries
Carried(r) ==
    IF r.status \notin {200, 201} THEN {}
    ELSE CASE r.endpoint \in {"getUser", "createUser", "updateUser"} -> {r.body.data}
           [] r.endpoint = "getUsers" -> {d.doc : d \in r.body.data}
           [] r.endpoint = "login" -> {r.body.data.user}
           [] OTHER -> {}

\* C28: no response of login, of the user endpoints or of protect carries the
\* password field of a document; and the answer to every request other than a
\* login is the one the same request gets from every collection that differs
\* from the stored one in the passwords only
C28_PasswordNotDisclosed ==
    [][ (resp = NoResp /\ resp'.endpoint \in UserEndpoints \cup {"login"})
        => /\ \A doc \in Carried(resp') : "password" \notin DOMAIN doc
           /\ resp'.endpoint \in UserEndpoints
              => \A db \in PasswordVariants(users) \cup {users} :
                    LET r == UserAnswer(db, userSeq, resp'.endpoint, resp'.query)
                    IN resp'.status = r.status /\ resp'.body = r.body ]_vars

\* an update of the password of a stored user, answered 200 with the document
C28_Witness ==
    /\ resp.endpoint = "updateUser"
    /\ resp.status = 200
    /\ "password" \in DOMAIN resp.query.body
    /\ resp.query.body["password"] = users[resp.query.id].password
    /\ Cardinality(DOMAIN users) = 2

----------------------------------------------------------------------------
(* C29: the totals of the cash by-month report.                             *)

CashTypes ==
    {"CashCustomer", "CreditCustomer", "Normal", "Online", "Return",
     "ReturnCashCustomer", "ReturnCreditCustomer", "ReturnOnline"}

\* C29: in the cash report every month's Total is the sum of its eight
\* per-type amounts, its totalCount is the number of header rows of the eight
\* invoice types in that month, and grandTotals.Total and
\* grandTotals.totalCount are the sums of the monthly values
C29_CashTotals ==
    (resp.endpoint = "getCashHeaderSalesByMonth" /\ resp.status = 200) =>
        /\ \A n \in 1..Len(resp.body.data) :
              LET m == resp.body.data[n]
              IN /\ DOMAIN m.sums = CashTypes
                 /\ m.Total = SumColumns(m.sums, CashTypes)
                 /\ m.totalCount =
                        Cardinality({i \in DOMAIN headerSales :
                                        /\ headerSales[i].Year = m.Year
                                        /\ headerSales[i].Month = m.Month
                                        /\ headerSales[i].InvoiceType \in CashTypes})
        /\ resp.body.grandTotals.Total = SumSeq(resp.body.data, "Total")
        /\ resp.body.grandTotals.totalCount = SumSeq(resp.body.data, "totalCount")

----------------------------------------------------------------------------
(* C30: a visit is recorded for its caller.                                 *)

\* C30: every step that changes the Visit collection answers a POST
\* /api/visits and adds one row whose user is the _id of the caller, whatever
\* the body holds; and a request without a path is answered 400 and stores
\* nothing
C30_VisitOfCaller ==
    [][ /\ visits' # visits
           => /\ resp'.endpoint = "createVisit"
              /\ \E id \in DOMAIN visits' \ DOMAIN visits :
                    /\ DOMAIN visits' = DOMAIN visits \cup {id}
                    /\ visits'[id].user = resp'.caller.id
        /\ (resp = NoResp /\ resp'.endpoint = "createVisit" /\ ~Has(resp'.query.path))
           => resp'.status = 400 /\ visits' = visits ]_vars

\* a visit stored for its caller by a request whose body names another user
C30_Witness ==
    /\ resp.endpoint = "createVisit"
    /\ resp.status = 201
    /\ Has(resp.query.user)
    /\ Val(resp.query.user) # resp.caller.id
    /\ visits[resp.body.data.id].user = resp.caller.id

====
